---- MODULE Spec2Model ----
(***************************************************************************)
(* BackupFlow: the multi-strategy orchestrator                             *)
(* (src/core/multi_strategy_backup_manager.py) and strategy discovery      *)
(* (src/core/strategy_manager.py).                                         *)
(*                                                                         *)
(* A Python string is a sequence of pieces (TLA+ strings); concatenation   *)
(* is \o.  The path separator "/" is always a piece of its own, so that    *)
(* str.strip("/") can be computed.  None is the sentinel None_ below.      *)
(* A Python dict is the insertion-ordered sequence of its entries          *)
(* [k |-> key, v |-> value].                                               *)
(***************************************************************************)
EXTENDS Integers, Sequences, FiniteSets, TLC

VARIABLES
    config,            \* self.config.strategies: sequence of BackupStrategy
    pc,                \* position of create_backup
    session,           \* MultiStrategyBackupSession
    raised,            \* what create_backup raised to its caller (None_ if nothing)
    si, di, ni, ti,    \* loop cursors: strategy, database entry, database name, storage
    all_backup_files,  \* _execute_single_strategy: all_backup_files
    all_remote_paths,  \* _execute_single_strategy: all_remote_paths
    backup_files,      \* _backup_database_to_storages: backup_files
    remote_paths,      \* _backup_database_to_storages: remote_paths
    backup_filename,   \* _backup_database_to_storages: backup_filename
    temp_dir,          \* _backup_database_to_storages: temp_dir
    pending,           \* exception in flight through the finally block (None_ if none)
    result,            \* what _execute_single_strategy returned (None_ while it runs)
    temp_dirs,         \* temporary directories that exist on disk
    calls,             \* adapter and factory calls made for the current strategy
    touched,           \* whether the session constructed or called any adapter
    rmtree_works,      \* whether shutil.rmtree can remove the temporary directories
    env,               \* os.environ, for strategy discovery
    reads,             \* environment variables read by discovery, in the order read
    dpc,               \* position of parse_strategies_from_env
    strategy_index,    \* parse_strategies_from_env: strategy_index
    strategies,        \* parse_strategies_from_env: strategies
    derror,            \* StrategyError raised by discovery (None_ if none)
    clients,           \* the client the check found for each engine (<<>> before it)
    lpc,               \* position of run_backup and of the load_config it calls
    loaded,            \* the BackupConfig load_config returned (None_ if none)
    lerror,            \* the ConfigError load_config raised (None_ if none)
    p_prefix,          \* remote path construction: storage_config.prefix
    p_filename,        \* remote path construction: backup_filename
    p_remote,          \* remote path construction: remote_path
    fn,                \* a function called on its own: its name ("none" if none)
    fn_args,           \* what the argument of the call was built from
    fn_input,          \* the argument of the call
    fn_result          \* what the call returned or raised (<<>> before it)

orchVars == <<config, pc, session, raised, si, di, ni, ti, all_backup_files,
              all_remote_paths, backup_files, remote_paths, backup_filename,
              temp_dir, pending, result, temp_dirs, calls, touched,
              rmtree_works>>
discVars == <<env, reads, dpc, strategy_index, strategies, derror, clients>>
loadVars == <<lpc, loaded, lerror>>
pathVars == <<p_prefix, p_filename, p_remote>>
fnVars == <<fn, fn_args, fn_input, fn_result>>
vars == <<orchVars, rmtree_works, discVars, loadVars, pathVars, fnVars>>

-----------------------------------------------------------------------------
(* Bounds of the model *)

MaxStrategies == 2
MaxPrefixLen == 5
MaxIndex == 3
MaxEntries == 2

-----------------------------------------------------------------------------
(* Python values *)

None_ == <<"<None>">>

NoneDict == << [k |-> None_, v |-> <<>>] >>

RECURSIVE SumSeq(_)
SumSeq(s) == IF s = <<>> THEN 0 ELSE Head(s) + SumSeq(Tail(s))

\* sep.join(parts), parts a sequence of strings
RECURSIVE Join(_, _)
Join(sep, parts) ==
    IF parts = <<>> THEN <<>>
    ELSE IF Len(parts) = 1 THEN parts[1]
    ELSE parts[1] \o sep \o Join(sep, Tail(parts))

\* sub in s (substring test)
Contains(s, sub) ==
    \E i \in 0..(Len(s) - Len(sub)) : SubSeq(s, i + 1, i + Len(sub)) = sub

EndsWith(s, suffix) ==
    /\ Len(s) >= Len(suffix)
    /\ SubSeq(s, Len(s) - Len(suffix) + 1, Len(s)) = suffix

StartsWith(s, prefix) ==
    /\ Len(s) >= Len(prefix)
    /\ SubSeq(s, 1, Len(prefix)) = prefix

\* d[key] = value
DictSet(d, key, value) ==
    IF \E i \in 1..Len(d) : d[i].k = key
    THEN [i \in 1..Len(d) |-> IF d[i].k = key THEN [k |-> key, v |-> value] ELSE d[i]]
    ELSE Append(d, [k |-> key, v |-> value])

\* bool(x) of an Optional[dict]
Truthy(d) == d # NoneDict /\ d # <<>>

-----------------------------------------------------------------------------
(* Configuration records (src/interfaces/config_interface.py) *)

\* (password and backup_options are left out: nothing reads them)
DatabaseConfig(type, host, port, username, names, timeout) ==
    [database_type |-> type, host |-> host, port |-> port, username |-> username,
     database_names |-> names, connection_timeout |-> timeout]

\* (storage_options is left out: nothing reads it)
StorageConfig(type, endpoint, access_key, secret_key, bucket, region, prefix) ==
    [storage_type |-> type, endpoint |-> endpoint, access_key |-> access_key,
     secret_key |-> secret_key, bucket |-> bucket, region |-> region,
     prefix |-> prefix]

BackupStrategy(id, dbs, sts, compression, retention, timeout, verify) ==
    [strategy_id |-> id, databases |-> dbs, storages |-> sts,
     compression |-> compression, retention_days |-> retention,
     backup_timeout_minutes |-> timeout, verify_backup |-> verify]

StrategyExecutionResult(id, success, msg, files, paths) ==
    [strategy_id |-> id, success |-> success, error_message |-> msg,
     backup_files |-> files, remote_paths |-> paths]

\* The wall clock's second, as strftime("%Y%m%d_%H%M%S") prints it: every
\* database name of a session is dumped within the same second.
Timestamps == {"20240101_120000"}

\* The unique suffix mkdtemp gives a directory: here the position of the
\* database name in the strategy.
TempSuffix(d, n) == <<"d", <<"1", "2", "3", "4">>[d], "n", <<"1", "2", "3", "4">>[n]>>

\* The strategies an orchestrator is run on: the defaults; two database names
\* fanned out to two storages with prefixes to normalise, no compression, no
\* verification; two database entries on one host holding the same database
\* name, with no retention.
StrategyTemplates ==
    { BackupStrategy(<<"s">>,
        << DatabaseConfig("mysql", "db1", 3306, "u", <<"app">>, 30) >>,
        << StorageConfig("r2", None_, "k", "s", "bkt1", "auto", None_) >>,
        TRUE, 30, 60, TRUE),
      BackupStrategy(<<"s">>,
        << DatabaseConfig("postgresql", "db2", 5432, "u", <<"app", "logs">>, 30) >>,
        << StorageConfig("s3", None_, "k", "s", "bkt1", "us-east-1", <<"/", "a", "/">>),
           StorageConfig("r2", None_, "k", "s", "bkt2", "auto", <<>>) >>,
        FALSE, 30, 60, FALSE),
      BackupStrategy(<<"s">>,
        << DatabaseConfig("mysql", "db1", 3306, "u", <<"app">>, 30),
           DatabaseConfig("postgresql", "db1", 5432, "u", <<"app">>, 30) >>,
        << StorageConfig("s3", None_, "k", "s", "bkt3", "us-east-1", <<"a", "/", "b">>) >>,
        TRUE, 0, 60, FALSE) }

StrategyId(i) == << <<"strategy_1">>, <<"strategy_2">>, <<"strategy_3">>,
                    <<"strategy_4">>, <<"strategy_5">> >>[i]

\* Strategy lists of up to MaxStrategies strategies, ids by position.
Configs ==
    UNION { { [i \in 1..n |-> [shape[i] EXCEPT !.strategy_id = StrategyId(i)]] :
                shape \in [1..n -> StrategyTemplates] } : n \in 0..MaxStrategies }

\* What a call of an adapter does: it succeeds, it reports failure (False, or a
\* result with success = False), or it raises an Exception.
Outcomes == {"ok", "fail", "raise"}

\* str(e) of an exception raised by an adapter, a factory or mkdtemp
ExceptionText == <<"RuntimeError: adapter raised">>

-----------------------------------------------------------------------------
(* Pure functions of _backup_database_to_storages *)

\* backup_filename, lines 226-233
BackupFilename(timestamp, database_type, db_name, compression) ==
    <<timestamp, "_", database_type, "_", db_name>>
        \o (IF compression THEN <<".gz">> ELSE <<".sql">>)

\* s.lstrip("/")
RECURSIVE LStrip(_)
LStrip(s) == IF s # <<>> /\ Head(s) = "/" THEN LStrip(Tail(s)) ELSE s

\* s.rstrip("/")
RECURSIVE RStrip(_)
RStrip(s) ==
    IF s # <<>> /\ s[Len(s)] = "/" THEN RStrip(SubSeq(s, 1, Len(s) - 1)) ELSE s

\* s.strip("/")
Strip(s) == RStrip(LStrip(s))

\* a NormalizePrefix that removes at most one "/" at each end
NormalizePrefixOnce(prefix) ==
    LET s == IF prefix = None_ THEN <<>> ELSE prefix
        l == IF s # <<>> /\ Head(s) = "/" THEN Tail(s) ELSE s
    IN IF l # <<>> /\ l[Len(l)] = "/" THEN SubSeq(l, 1, Len(l) - 1) ELSE l

\* prefix = (storage_config.prefix or "").strip("/"), lines 263-265
NormalizePrefix(prefix) == Strip(IF prefix = None_ THEN <<>> ELSE prefix)

\* remote_path, lines 262-269
RemotePath(prefix, filename) ==
    IF NormalizePrefix(prefix) # <<>>
    THEN NormalizePrefix(prefix) \o <<"/">> \o filename
    ELSE filename

\* temp_dir = tempfile.mkdtemp(prefix=f"backup_{strategy_id}_{db_name}_"), line 222
MkdTemp(strategy_id, db_name, suffix) ==
    <<"/tmp/", "backup_">> \o strategy_id \o <<"_", db_name, "_">> \o suffix

\* os.path.join(temp_dir, backup_filename), line 235
BackupFilePath(dir, filename) == dir \o <<"/">> \o filename

\* backup_key = f"{db_config.host}_{db_name}", line 185
BackupKey(host, db_name) == <<host, "_", db_name>>

-----------------------------------------------------------------------------
(* The orchestrator: MultiStrategyBackupManager.create_backup *)

CurStrategy == config[si]
CurDatabase == CurStrategy.databases[di]
CurName == CurDatabase.database_names[ni]
CurStorage == CurStrategy.storages[ti]

\* MultiStrategyBackupSession(...), lines 66-71, with the dataclass defaults
NewSession ==
    [strategy_results |-> <<>>, success |-> FALSE, error_message |-> None_,
     duration_set |-> FALSE, total_databases |-> 0, total_storages |-> 0,
     total_backup_files |-> 0]

NoResult == StrategyExecutionResult(None_, FALSE, None_, NoneDict, NoneDict)

\* A call of an adapter or a factory: what was called, for which database entry,
\* database name and storage, its argument (upload_file: the local path and the
\* remote path), and what it did.
Call(op, arg, outcome) ==
    [op |-> op, d |-> di, n |-> ni, t |-> ti, arg |-> arg, outcome |-> outcome]

Log(op, arg, outcome) ==
    /\ calls' = Append(calls, Call(op, arg, outcome))
    /\ touched' = TRUE

\* the local variables of _backup_database_to_storages
nameLocals == <<backup_files, remote_paths, backup_filename, temp_dir, ti, pending>>
\* the local variables of _execute_single_strategy
strategyLocals == <<all_backup_files, all_remote_paths, di, ni>>

DropNameLocals ==
    /\ backup_files' = <<>> /\ remote_paths' = <<>>
    /\ backup_filename' = <<>> /\ temp_dir' = <<>>
    /\ ti' = 0 /\ pending' = None_

DropStrategyLocals ==
    /\ all_backup_files' = <<>> /\ all_remote_paths' = <<>>
    /\ di' = 0 /\ ni' = 0

OrchStart(c, p) ==
    /\ config = c
    /\ pc = p
    /\ session = NewSession
    /\ raised = None_
    /\ si = 0 /\ di = 0 /\ ni = 0 /\ ti = 0
    /\ all_backup_files = <<>> /\ all_remote_paths = <<>>
    /\ backup_files = <<>> /\ remote_paths = <<>>
    /\ backup_filename = <<>> /\ temp_dir = <<>>
    /\ pending = None_
    /\ result = NoResult
    /\ temp_dirs = {}
    /\ calls = <<>>
    /\ touched = FALSE

\* MultiStrategyBackupManager(config), lines 47-56, on any strategy list
InitOrch == (\E c \in Configs : OrchStart(c, "start")) /\ rmtree_works \in BOOLEAN

IdleOrch == OrchStart(<<>>, "idle") /\ rmtree_works = TRUE

\* a CreateBackupExcept that lets the exception reach the caller
CreateBackupReraise(msg) ==
    /\ session' = [session EXCEPT !.duration_set = TRUE]
    /\ raised' = msg
    /\ pc' = "raised"

\* except Exception as e, lines 112-119: the session fails and is returned
CreateBackupExcept(msg) ==
    /\ session' = [session EXCEPT !.success = FALSE, !.error_message = msg,
                                  !.duration_set = TRUE]
    /\ raised' = None_
    /\ pc' = "returned"

\* a Begin without the check of lines 76-77
BeginUnchecked ==
    /\ pc = "start"
    /\ session' = [session EXCEPT
          !.total_databases =
              SumSeq([i \in 1..Len(config) |-> Len(config[i].databases)]),
          !.total_storages =
              SumSeq([i \in 1..Len(config) |-> Len(config[i].storages)])]
    /\ si' = 1
    /\ pc' = "next_strategy"
    /\ UNCHANGED <<config, raised, strategyLocals, nameLocals, result, temp_dirs,
                   calls, touched, rmtree_works, discVars, pathVars, fnVars, loadVars>>

\* a Begin that leaves the storages to be counted as the strategies run
BeginCountsDatabasesOnly ==
    /\ pc = "start"
    /\ IF config = <<>>
       THEN /\ CreateBackupExcept(<<"No backup strategies configured">>)
            /\ si' = si
       ELSE /\ session' = [session EXCEPT
                 !.total_databases =
                     SumSeq([i \in 1..Len(config) |-> Len(config[i].databases)])]
            /\ si' = 1
            /\ pc' = "next_strategy"
            /\ raised' = raised
    /\ UNCHANGED <<config, strategyLocals, nameLocals, result, temp_dirs, calls,
                   touched, rmtree_works, discVars, pathVars, fnVars, loadVars>>

\* lines 75-86: reject an empty strategy list, else count the totals
Begin ==
    /\ pc = "start"
    /\ IF config = <<>>
       THEN /\ CreateBackupExcept(<<"No backup strategies configured">>)
            /\ si' = si
       ELSE /\ session' = [session EXCEPT
                 !.total_databases =
                     SumSeq([i \in 1..Len(config) |-> Len(config[i].databases)]),
                 !.total_storages =
                     SumSeq([i \in 1..Len(config) |-> Len(config[i].storages)])]
            /\ si' = 1
            /\ pc' = "next_strategy"
            /\ raised' = raised
    /\ UNCHANGED <<config, strategyLocals, nameLocals, result, temp_dirs, calls,
                   touched, rmtree_works, discVars, pathVars, fnVars, loadVars>>

\* lines 125-129 and 158-165: the next strategy of the list starts
StartStrategy ==
    /\ pc = "next_strategy"
    /\ si <= Len(config)
    /\ all_backup_files' = <<>>
    /\ all_remote_paths' = <<>>
    /\ di' = 1 /\ ni' = 0
    /\ pc' = "next_db"
    /\ UNCHANGED <<config, session, raised, si, nameLocals, result, temp_dirs,
                   calls, touched, rmtree_works, discVars, pathVars, fnVars, loadVars>>

\* _execute_single_strategy returns r; its local variables are gone
Return(r) ==
    /\ result' = r
    /\ pc' = "strategy_done"
    /\ DropStrategyLocals
    /\ DropNameLocals

\* a StrategyFails that reports what the strategy had collected before it failed
StrategyFailsWithFiles(msg) ==
    Return(StrategyExecutionResult(CurStrategy.strategy_id, FALSE, msg,
                                   all_backup_files, all_remote_paths))

\* except Exception as e, lines 199-206: the exception becomes a failed result
StrategyFails(msg) ==
    Return(StrategyExecutionResult(CurStrategy.strategy_id, FALSE, msg,
                                   NoneDict, NoneDict))

\* lines 189-197: every database entry is done, the result is successful
StrategySucceeds ==
    /\ pc = "next_db"
    /\ di > Len(CurStrategy.databases)
    /\ Return(StrategyExecutionResult(CurStrategy.strategy_id, TRUE, None_,
                                      all_backup_files, all_remote_paths))
    /\ UNCHANGED <<config, session, raised, si, temp_dirs, calls, touched,
                   rmtree_works, discVars, pathVars, fnVars, loadVars>>

\* a RecordResult that leaves the loop of line 125 at the first failed result
RecordResultBreak ==
    /\ pc = "strategy_done"
    /\ session' = [session EXCEPT !.strategy_results = Append(@, result)]
    /\ si' = IF result.success THEN si + 1 ELSE Len(config) + 1
    /\ result' = NoResult
    /\ calls' = <<>>
    /\ pc' = "next_strategy"
    /\ UNCHANGED <<config, raised, strategyLocals, nameLocals, temp_dirs, touched,
                   rmtree_works, discVars, pathVars, fnVars, loadVars>>

\* A loop that passes over the strategy after the one that just ended
RecordResultSkipNext ==
    /\ pc = "strategy_done"
    /\ session' = [session EXCEPT !.strategy_results = Append(@, result)]
    /\ si' = si + 2
    /\ result' = NoResult
    /\ calls' = <<>>
    /\ pc' = "next_strategy"
    /\ UNCHANGED <<config, raised, strategyLocals, nameLocals, temp_dirs, touched,
                   rmtree_works, discVars, pathVars, fnVars, loadVars>>

\* a RecordResult that updates the session's success flag as the results come in
RecordResultSetsSuccess ==
    /\ pc = "strategy_done"
    /\ session' = [session EXCEPT !.strategy_results = Append(@, result),
                                  !.success = @ \/ result.success]
    /\ si' = si + 1
    /\ result' = NoResult
    /\ calls' = <<>>
    /\ pc' = "next_strategy"
    /\ UNCHANGED <<config, raised, strategyLocals, nameLocals, temp_dirs, touched,
                   rmtree_works, discVars, pathVars, fnVars, loadVars>>

\* session.strategy_results.append(result), line 130, and the loop of line 125
\* goes on whatever the result
RecordResult ==
    /\ pc = "strategy_done"
    /\ session' = [session EXCEPT !.strategy_results = Append(@, result)]
    /\ si' = si + 1
    /\ result' = NoResult
    /\ calls' = <<>>
    /\ pc' = "next_strategy"
    /\ UNCHANGED <<config, raised, strategyLocals, nameLocals, temp_dirs, touched,
                   rmtree_works, discVars, pathVars, fnVars, loadVars>>

\* database = self._create_database_instance(db_config), line 172
CreateDatabaseInstance ==
    /\ pc = "next_db"
    /\ di <= Len(CurStrategy.databases)
    /\ \E outcome \in {"ok", "raise"} :
         /\ Log("create_database", <<CurDatabase.host>>, outcome)
         /\ IF outcome = "ok"
            THEN /\ pc' = "test_db"
                 /\ UNCHANGED <<result, strategyLocals, nameLocals>>
            ELSE StrategyFails(ExceptionText)
    /\ UNCHANGED <<config, session, raised, si, temp_dirs, rmtree_works, discVars, pathVars, fnVars, loadVars>>

\* a TestDatabaseConnection that passes over a database entry whose test
\* reports failure and goes on with the next entry
TestDatabaseConnectionSkip ==
    /\ pc = "test_db"
    /\ \E outcome \in Outcomes :
         /\ Log("db.test_connection", <<CurDatabase.host>>, outcome)
         /\ CASE outcome = "ok" ->
                   /\ IF Len(CurDatabase.database_names) = 0
                      THEN pc' = "next_db" /\ di' = di + 1 /\ ni' = 0
                      ELSE pc' = "next_name" /\ di' = di /\ ni' = 1
                   /\ UNCHANGED <<result, all_backup_files, all_remote_paths, nameLocals>>
              [] outcome = "fail" ->
                   /\ pc' = "next_db" /\ di' = di + 1 /\ ni' = 0
                   /\ UNCHANGED <<result, all_backup_files, all_remote_paths, nameLocals>>
              [] outcome = "raise" ->
                   StrategyFails(ExceptionText)
    /\ UNCHANGED <<config, session, raised, si, temp_dirs, rmtree_works, discVars, pathVars, fnVars, loadVars>>

\* if not database.test_connection(): raise, lines 175-176; then the loop of
\* line 179 starts
TestDatabaseConnection ==
    /\ pc = "test_db"
    /\ \E outcome \in Outcomes :
         /\ Log("db.test_connection", <<CurDatabase.host>>, outcome)
         /\ CASE outcome = "ok" ->
                   /\ IF Len(CurDatabase.database_names) = 0
                      THEN pc' = "next_db" /\ di' = di + 1 /\ ni' = 0
                      ELSE pc' = "next_name" /\ di' = di /\ ni' = 1
                   /\ UNCHANGED <<result, all_backup_files, all_remote_paths, nameLocals>>
              [] outcome = "fail" ->
                   StrategyFails(<<"Database connection failed: ", CurDatabase.host>>)
              [] outcome = "raise" ->
                   StrategyFails(ExceptionText)
    /\ UNCHANGED <<config, session, raised, si, temp_dirs, rmtree_works, discVars, pathVars, fnVars, loadVars>>

\* lines 222-235: the temporary directory and the backup filename of a database
\* name; strftime reads the wall clock
BeginDatabaseName ==
    /\ pc = "next_name"
    /\ \E outcome \in {"ok", "raise"} :
         IF outcome = "ok"
         THEN \E timestamp \in Timestamps :
                /\ temp_dir' = MkdTemp(CurStrategy.strategy_id, CurName,
                                       TempSuffix(di, ni))
                /\ temp_dirs' = temp_dirs \cup {temp_dir'}
                /\ backup_filename' = BackupFilename(timestamp,
                       CurDatabase.database_type, CurName, CurStrategy.compression)
                /\ pc' = "dump"
                /\ UNCHANGED <<result, strategyLocals, backup_files, remote_paths,
                               ti, pending>>
         ELSE /\ StrategyFails(ExceptionText)
              /\ UNCHANGED temp_dirs
    /\ UNCHANGED <<config, session, raised, si, calls, touched, rmtree_works, discVars, pathVars, fnVars, loadVars>>

\* lines 248-252: the upload loop starts (and ends at once when the strategy
\* has no storage)
EnterStorageLoop ==
    /\ backup_files' = <<>>
    /\ remote_paths' = <<>>
    /\ ti' = 1
    /\ pending' = None_
    /\ pc' = IF Len(CurStrategy.storages) = 0 THEN "finally" ELSE "next_storage"

\* a Raise that only logs the failure and goes on
RaiseSwallowed(msg) ==
    /\ pending' = None_
    /\ pc' = "finally"

\* an exception leaves _backup_database_to_storages through its finally block
Raise(msg) ==
    /\ pending' = msg
    /\ pc' = "finally"

\* backup_result = database.create_single_database_backup(...), lines 239-245
CreateSingleDatabaseBackup ==
    /\ pc = "dump"
    /\ \E outcome \in Outcomes :
         /\ Log("db.create_single_database_backup", BackupFilePath(temp_dir, backup_filename), outcome)
         /\ CASE outcome = "ok" ->
                   IF CurStrategy.verify_backup
                   THEN /\ pc' = "validate"
                        /\ UNCHANGED <<backup_files, remote_paths, ti, pending>>
                   ELSE EnterStorageLoop
              [] outcome = "fail" ->
                   /\ Raise(<<"Database backup failed: ", "dump error">>)
                   /\ UNCHANGED <<backup_files, remote_paths, ti>>
              [] outcome = "raise" ->
                   /\ Raise(ExceptionText)
                   /\ UNCHANGED <<backup_files, remote_paths, ti>>
    /\ UNCHANGED <<config, session, raised, si, strategyLocals, backup_filename,
                   temp_dir, result, temp_dirs, rmtree_works, discVars, pathVars, fnVars, loadVars>>

\* database.validate_backup(backup_file_path), lines 245-246
ValidateBackup ==
    /\ pc = "validate"
    /\ \E outcome \in Outcomes :
         /\ Log("db.validate_backup", BackupFilePath(temp_dir, backup_filename), outcome)
         /\ CASE outcome = "ok" -> EnterStorageLoop
              [] outcome = "fail" ->
                   /\ Raise(<<"Backup file validation failed: ">>
                            \o BackupFilePath(temp_dir, backup_filename))
                   /\ UNCHANGED <<backup_files, remote_paths, ti>>
              [] outcome = "raise" ->
                   /\ Raise(ExceptionText)
                   /\ UNCHANGED <<backup_files, remote_paths, ti>>
    /\ UNCHANGED <<config, session, raised, si, strategyLocals, backup_filename,
                   temp_dir, result, temp_dirs, rmtree_works, discVars, pathVars, fnVars, loadVars>>

\* storage = self._create_storage_instance(storage_config), line 256
CreateStorageInstance ==
    /\ pc = "next_storage"
    /\ \E outcome \in {"ok", "raise"} :
         /\ Log("create_storage", <<CurStorage.bucket>>, outcome)
         /\ IF outcome = "ok"
            THEN /\ pc' = "test_storage"
                 /\ UNCHANGED pending
            ELSE Raise(ExceptionText)
    /\ UNCHANGED <<config, session, raised, si, strategyLocals, backup_files,
                   remote_paths, backup_filename, temp_dir, ti, result, temp_dirs,
                   rmtree_works, discVars, pathVars, fnVars, loadVars>>

\* if not storage.test_connection(): raise, lines 259-260
TestStorageConnection ==
    /\ pc = "test_storage"
    /\ \E outcome \in Outcomes :
         /\ Log("storage.test_connection", <<CurStorage.bucket>>, outcome)
         /\ CASE outcome = "ok" -> pc' = "upload" /\ UNCHANGED pending
              [] outcome = "fail" ->
                   Raise(<<"Storage connection failed: ", CurStorage.bucket>>)
              [] outcome = "raise" -> Raise(ExceptionText)
    /\ UNCHANGED <<config, session, raised, si, strategyLocals, backup_files,
                   remote_paths, backup_filename, temp_dir, ti, result, temp_dirs,
                   rmtree_works, discVars, pathVars, fnVars, loadVars>>

\* a NextStorage that ends the upload loop after the first storage
NextStorageOnlyFirst ==
    /\ ti' = Len(CurStrategy.storages) + 1
    /\ pending' = None_
    /\ pc' = "finally"

\* the loop of line 252 moves to the next storage, or the function returns
\* (line 304) through its finally block
NextStorage ==
    /\ ti' = ti + 1
    /\ pending' = None_
    /\ pc' = IF ti + 1 > Len(CurStrategy.storages) THEN "finally" ELSE "next_storage"

\* an UploadFile that passes over a storage whose upload reports failure and
\* goes on with the next storage
UploadFileSkipFailed ==
    /\ pc = "upload"
    /\ \E outcome \in Outcomes :
         /\ Log("storage.upload_file",
                <<BackupFilePath(temp_dir, backup_filename),
                  RemotePath(CurStorage.prefix, backup_filename)>>, outcome)
         /\ CASE outcome = "ok" ->
                   /\ backup_files' =
                          Append(backup_files, BackupFilePath(temp_dir, backup_filename))
                   /\ remote_paths' =
                          Append(remote_paths, RemotePath(CurStorage.prefix, backup_filename))
                   /\ IF CurStrategy.retention_days > 0
                      THEN pc' = "cleanup" /\ UNCHANGED <<ti, pending>>
                      ELSE NextStorage
              [] outcome = "fail" ->
                   /\ NextStorage
                   /\ UNCHANGED <<backup_files, remote_paths>>
              [] outcome = "raise" ->
                   /\ Raise(ExceptionText)
                   /\ UNCHANGED <<backup_files, remote_paths, ti>>
    /\ UNCHANGED <<config, session, raised, si, strategyLocals, backup_filename,
                   temp_dir, result, temp_dirs, rmtree_works, discVars, pathVars, fnVars, loadVars>>

\* upload_result = storage.upload_file(backup_file_path, remote_path, metadata),
\* lines 262-293
UploadFile ==
    /\ pc = "upload"
    /\ \E outcome \in Outcomes :
         /\ Log("storage.upload_file",
                <<BackupFilePath(temp_dir, backup_filename),
                  RemotePath(CurStorage.prefix, backup_filename)>>, outcome)
         /\ CASE outcome = "ok" ->
                   /\ backup_files' =
                          Append(backup_files, BackupFilePath(temp_dir, backup_filename))
                   /\ remote_paths' =
                          Append(remote_paths, RemotePath(CurStorage.prefix, backup_filename))
                   /\ IF CurStrategy.retention_days > 0
                      THEN pc' = "cleanup" /\ UNCHANGED <<ti, pending>>
                      ELSE NextStorage
              [] outcome = "fail" ->
                   /\ Raise(<<"Upload failed: ", "upload error">>)
                   /\ UNCHANGED <<backup_files, remote_paths, ti>>
              [] outcome = "raise" ->
                   /\ Raise(ExceptionText)
                   /\ UNCHANGED <<backup_files, remote_paths, ti>>
    /\ UNCHANGED <<config, session, raised, si, strategyLocals, backup_filename,
                   temp_dir, result, temp_dirs, rmtree_works, discVars, pathVars, fnVars, loadVars>>

\* a CleanupOldFiles whose exception is not caught
CleanupOldFilesRaises ==
    /\ pc = "cleanup"
    /\ \E outcome \in {"ok", "raise"} :
         /\ Log("storage.cleanup_old_files", CurStorage.prefix, outcome)
         /\ IF outcome = "ok"
            THEN NextStorage
            ELSE Raise(ExceptionText) /\ UNCHANGED ti
    /\ UNCHANGED <<config, session, raised, si, strategyLocals, backup_files,
                   remote_paths, backup_filename, temp_dir, result, temp_dirs,
                   rmtree_works, discVars, pathVars, fnVars, loadVars>>

\* storage.cleanup_old_files(strategy.retention_days, storage_config.prefix),
\* lines 293-302: an exception is logged and swallowed
CleanupOldFiles ==
    /\ pc = "cleanup"
    /\ \E outcome \in {"ok", "raise"} :
         /\ Log("storage.cleanup_old_files", CurStorage.prefix, outcome)
         /\ NextStorage
    /\ UNCHANGED <<config, session, raised, si, strategyLocals, backup_files,
                   remote_paths, backup_filename, temp_dir, result, temp_dirs,
                   rmtree_works, discVars, pathVars, fnVars, loadVars>>

\* a RemoveTempDir that removes the directory only when no exception is in
\* flight (the removal after the upload loop instead of in a finally block)
RemoveTempDirOnSuccess ==
    /\ pc = "finally"
    /\ temp_dirs' = IF rmtree_works /\ pending = None_
                    THEN temp_dirs \ {temp_dir} ELSE temp_dirs
    /\ IF pending # None_
       THEN StrategyFails(pending)
       ELSE /\ all_backup_files' =
                   DictSet(all_backup_files, BackupKey(CurDatabase.host, CurName),
                           backup_files)
            /\ all_remote_paths' =
                   DictSet(all_remote_paths, BackupKey(CurDatabase.host, CurName),
                           remote_paths)
            /\ IF ni + 1 > Len(CurDatabase.database_names)
               THEN di' = di + 1 /\ ni' = 0 /\ pc' = "next_db"
               ELSE di' = di /\ ni' = ni + 1 /\ pc' = "next_name"
            /\ DropNameLocals
            /\ UNCHANGED result
    /\ UNCHANGED <<config, session, raised, si, calls, touched, rmtree_works, discVars, pathVars, fnVars, loadVars>>

\* finally: shutil.rmtree(temp_dir), lines 306-312 (a failure is logged and
\* swallowed); then either the exception in flight reaches lines 199-206, or the
\* lists returned at line 304 are merged at lines 184-187 and the loops of
\* lines 179 and 168 go on
RemoveTempDir ==
    /\ pc = "finally"
    /\ temp_dirs' = IF rmtree_works THEN temp_dirs \ {temp_dir} ELSE temp_dirs
    /\ IF pending # None_
       THEN StrategyFails(pending)
       ELSE /\ all_backup_files' =
                   DictSet(all_backup_files, BackupKey(CurDatabase.host, CurName),
                           backup_files)
            /\ all_remote_paths' =
                   DictSet(all_remote_paths, BackupKey(CurDatabase.host, CurName),
                           remote_paths)
            /\ IF ni + 1 > Len(CurDatabase.database_names)
               THEN di' = di + 1 /\ ni' = 0 /\ pc' = "next_db"
               ELSE di' = di /\ ni' = ni + 1 /\ pc' = "next_name"
            /\ DropNameLocals
            /\ UNCHANGED result
    /\ UNCHANGED <<config, session, raised, si, calls, touched, rmtree_works, discVars, pathVars, fnVars, loadVars>>

\* list_files(prefix) of a storage returns the object with this key: the
\* listing is filtered by Prefix only when prefix is truthy (s3_storage.py
\* lines 213-214), and then holds the keys that start with it
ListsKey(prefix, key) ==
    IF prefix = None_ \/ prefix = <<>> THEN TRUE ELSE StartsWith(key, prefix)

\* f"{r.strategy_id}: {r.error_message}", line 98
FailureLine(r) == r.strategy_id \o <<": ">> \o r.error_message

IsSuccess(r) == r.success
IsFailure(r) == ~r.success

\* len(r.backup_files) ... if r.backup_files, lines 93-94
CountBackupFiles(r) == IF Truthy(r.backup_files) THEN Len(r.backup_files) ELSE 0

\* session.total_backup_files, lines 92-95
TotalBackupFiles(successful) ==
    SumSeq([i \in 1..Len(successful) |-> CountBackupFiles(successful[i])])

\* a SessionSuccess that is true only when no strategy failed
SessionSuccessStrict(successful, failed) == failed = <<>>

\* session.success, lines 100 and 103
SessionSuccess(successful, failed) ==
    IF failed # <<>> THEN Len(successful) > 0 ELSE TRUE

\* session.error_message, lines 97-99
SessionErrorMessage(failed) ==
    IF failed # <<>>
    THEN <<"Some strategies failed: ">>
             \o Join(<<"; ">>, [i \in 1..Len(failed) |-> FailureLine(failed[i])])
    ELSE None_

\* lines 88-110 and 119: the results are aggregated and the session is returned
Finalize ==
    /\ pc = "next_strategy"
    /\ si > Len(config)
    /\ LET successful == SelectSeq(session.strategy_results, IsSuccess)
           failed == SelectSeq(session.strategy_results, IsFailure)
       IN session' = [session EXCEPT
              !.total_backup_files = TotalBackupFiles(successful),
              !.error_message = SessionErrorMessage(failed),
              !.success = SessionSuccess(successful, failed),
              !.duration_set = TRUE]
    /\ pc' = "returned"
    /\ UNCHANGED <<config, raised, si, strategyLocals, nameLocals, result,
                   temp_dirs, calls, touched, rmtree_works, discVars, pathVars, fnVars, loadVars>>

IdleDisc ==
    /\ env = <<>> /\ reads = <<>> /\ dpc = "idle" /\ strategy_index = 0
    /\ strategies = <<>> /\ derror = None_ /\ clients = <<>>

IdlePath ==
    /\ p_prefix = None_ /\ p_filename = <<>> /\ p_remote = None_

IdleFn ==
    fn = "none" /\ fn_args = <<>> /\ fn_input = <<>> /\ fn_result = <<>>

IdleLoad ==
    lpc = "idle" /\ loaded = None_ /\ lerror = None_

Init == InitOrch /\ IdleDisc /\ IdlePath /\ IdleFn /\ IdleLoad

Next ==
    \/ Begin
    \/ StartStrategy
    \/ CreateDatabaseInstance
    \/ TestDatabaseConnection
    \/ BeginDatabaseName
    \/ CreateSingleDatabaseBackup
    \/ ValidateBackup
    \/ CreateStorageInstance
    \/ TestStorageConnection
    \/ UploadFile
    \/ CleanupOldFiles
    \/ RemoveTempDir
    \/ StrategySucceeds
    \/ RecordResult
    \/ Finalize

Spec == Init /\ [][Next]_vars

-----------------------------------------------------------------------------
(* Remote path construction on its own: lines 262-269 applied to any prefix *)

PathChars == {"/", "a", "b"}

\* Every string over PathChars of at most MaxPrefixLen characters, and None
Prefixes ==
    {None_} \cup UNION { [1..n -> PathChars] : n \in 0..MaxPrefixLen }

Filenames ==
    { BackupFilename("20240101_120000", "mysql", "app", c) : c \in BOOLEAN }

InitPath ==
    /\ p_prefix \in Prefixes
    /\ p_filename \in Filenames
    /\ p_remote = None_

BuildRemotePath ==
    /\ p_remote = None_
    /\ p_remote' = RemotePath(p_prefix, p_filename)
    /\ UNCHANGED <<p_prefix, p_filename, orchVars, discVars, fnVars, loadVars>>

PathInit == InitPath /\ IdleOrch /\ IdleDisc /\ IdleFn /\ IdleLoad

PathNext == BuildRemotePath

SpecPath == PathInit /\ [][PathNext]_vars

-----------------------------------------------------------------------------
(* Configuration strings (src/core/uri_parser.py) *)

\* The characters that are a piece of their own in the strings of the model;
\* the other pieces are words without any of these characters.
Separators == {":", "/", "@", ",", "|", "?", "=", "&", " "}

\* What a call gives back: the value it returns or the exception it raises
Returns(v) == [ok |-> TRUE, value |-> v, type |-> "", message |-> <<>>]

Raises(type, msg) == [ok |-> FALSE, value |-> None_, type |-> type, message |-> msg]

\* x or default
Or(x, default) == IF x = None_ \/ x = <<>> THEN default ELSE x

\* s.find(x) + 1: the first position of the piece x in s, 0 if there is none
IndexOf(s, x) ==
    IF \E i \in 1..Len(s) : s[i] = x
    THEN CHOOSE i \in 1..Len(s) : s[i] = x /\ \A j \in 1..(i - 1) : s[j] # x
    ELSE 0

\* s.rfind(x) + 1: the last position of the piece x in s, 0 if there is none
LastIndexOf(s, x) ==
    IF \E i \in 1..Len(s) : s[i] = x
    THEN CHOOSE i \in 1..Len(s) : s[i] = x /\ \A j \in (i + 1)..Len(s) : s[j] # x
    ELSE 0

\* s.split(sep)
RECURSIVE Split(_, _)
Split(s, sep) ==
    LET i == IndexOf(s, sep) IN
    IF i = 0 THEN <<s>>
    ELSE <<SubSeq(s, 1, i - 1)>> \o Split(SubSeq(s, i + 1, Len(s)), sep)

\* s.strip()
RECURSIVE StripSpace(_)
StripSpace(s) ==
    IF s # <<>> /\ Head(s) = " " THEN StripSpace(Tail(s))
    ELSE IF s # <<>> /\ s[Len(s)] = " " THEN StripSpace(SubSeq(s, 1, Len(s) - 1))
    ELSE s

\* [x.strip() for x in s.split(sep) if x.strip()]
SplitStripped(s, sep) ==
    LET parts == Split(s, sep) IN
    SelectSeq([i \in 1..Len(parts) |-> StripSpace(parts[i])], LAMBDA x : x # <<>>)

\* s.partition(x)[0]: what comes before the first x, all of s if there is none
Before(s, x) == SubSeq(s, 1, (IF IndexOf(s, x) = 0 THEN Len(s) ELSE IndexOf(s, x) - 1))

\* s.partition(x)[2]: what comes after the first x, "" if there is none
After(s, x) == IF IndexOf(s, x) = 0 THEN <<>> ELSE SubSeq(s, IndexOf(s, x) + 1, Len(s))

\* s.rpartition(x)[0]: what comes before the last x, "" if there is none
BeforeLast(s, x) == SubSeq(s, 1, LastIndexOf(s, x) - 1)

\* s.rpartition(x)[2]: what comes after the last x, all of s if there is none
AfterLast(s, x) == SubSeq(s, LastIndexOf(s, x) + 1, Len(s))

\* int(value) of the numerals the strings of the model hold
int(value) ==
    CASE value = <<"0">>    -> Returns(0)
      [] value = <<"5">>    -> Returns(5)
      [] value = <<"7">>    -> Returns(7)
      [] value = <<"30">>   -> Returns(30)
      [] value = <<"60">>   -> Returns(60)
      [] value = <<"3307">> -> Returns(3307)
      [] OTHER -> Raises("ValueError",
                    <<"invalid literal for int() with base 10: '">> \o value \o <<"'">>)

\* urlsplit: the url has a scheme when what comes before the first ":" is a word
HasScheme(uri) ==
    /\ IndexOf(uri, ":") > 1
    /\ \A j \in 1..(IndexOf(uri, ":") - 1) : uri[j] \notin Separators

\* urlparse(uri).scheme
Scheme(uri) == IF HasScheme(uri) THEN Before(uri, ":") ELSE <<>>

\* urlsplit: the url without its scheme
AfterScheme(uri) == IF HasScheme(uri) THEN After(uri, ":") ELSE uri

\* urlsplit: what follows the "//" that opens a network location
AfterSlashes(uri) == SubSeq(AfterScheme(uri), 3, Len(AfterScheme(uri)))

\* urlsplit: where the network location ends in s: at the first "/" or "?"
NetlocEnd(s) ==
    IF \E i \in 1..Len(s) : s[i] \in {"/", "?"}
    THEN CHOOSE i \in 1..Len(s) :
            s[i] \in {"/", "?"} /\ \A j \in 1..(i - 1) : s[j] \notin {"/", "?"}
    ELSE Len(s) + 1

\* urlparse(uri).netloc
Netloc(uri) ==
    IF StartsWith(AfterScheme(uri), <<"/", "/">>)
    THEN SubSeq(AfterSlashes(uri), 1, NetlocEnd(AfterSlashes(uri)) - 1)
    ELSE <<>>

\* urlsplit: the url without scheme and network location
AfterNetloc(uri) ==
    IF StartsWith(AfterScheme(uri), <<"/", "/">>)
    THEN SubSeq(AfterSlashes(uri), NetlocEnd(AfterSlashes(uri)), Len(AfterSlashes(uri)))
    ELSE AfterScheme(uri)

\* urlparse(uri).path
Path(uri) == Before(AfterNetloc(uri), "?")

\* urlparse(uri).query
Query(uri) == After(AfterNetloc(uri), "?")

\* urlparse(uri).username
Username(netloc) ==
    IF IndexOf(netloc, "@") = 0 THEN None_ ELSE Before(BeforeLast(netloc, "@"), ":")

\* urlparse(uri).password
Password(netloc) ==
    IF IndexOf(netloc, "@") = 0 \/ IndexOf(BeforeLast(netloc, "@"), ":") = 0 THEN None_
    ELSE After(BeforeLast(netloc, "@"), ":")

\* urlparse(uri).hostname
Hostname(netloc) ==
    IF Before(AfterLast(netloc, "@"), ":") = <<>> THEN None_
    ELSE Before(AfterLast(netloc, "@"), ":")

\* urlparse(uri).port or default: the ValueError of a port that is not a
\* number or is out of range, the port, or the default when there is no port
\* or the port is 0
PortOr(netloc, default) ==
    IF After(AfterLast(netloc, "@"), ":") = <<>> THEN Returns(default)
    ELSE IF ~int(After(AfterLast(netloc, "@"), ":")).ok
    THEN Raises("ValueError", <<"Port could not be cast to integer value as '">>
                    \o After(AfterLast(netloc, "@"), ":") \o <<"'">>)
    ELSE IF int(After(AfterLast(netloc, "@"), ":")).value > 65535
    THEN Raises("ValueError", <<"Port out of range 0-65535">>)
    ELSE IF int(After(AfterLast(netloc, "@"), ":")).value = 0 THEN Returns(default)
    ELSE int(After(AfterLast(netloc, "@"), ":"))

\* urllib.parse.urlparse(uri) of a string without fragment
urlparse(uri) ==
    [scheme |-> Scheme(uri),
     username |-> Username(Netloc(uri)),
     password |-> Password(Netloc(uri)),
     hostname |-> Hostname(Netloc(uri)),
     netloc |-> Netloc(uri),
     path |-> Path(uri),
     query |-> Query(uri)]

\* urllib.parse.parse_qs(query)[name], and [] when name is not a key of it:
\* the values of the pairs name=value of the query whose value is not blank
QueryValues(query, name) ==
    LET pairs == SelectSeq(Split(query, "&"),
                           LAMBDA nv : /\ IndexOf(nv, "=") # 0
                                       /\ After(nv, "=") # <<>>
                                       /\ Before(nv, "=") = name)
    IN  [i \in 1..Len(pairs) |-> After(pairs[i], "=")]

\* name in urllib.parse.parse_qs(query)
QueryHas(query, name) == QueryValues(query, name) # <<>>

\* Lines 103-106 and 217-220, 276-279: an exception that is not a
\* URIParseError leaves the parser as a URIParseError with this text before it
Wrapped(text, e) == Raises("URIParseError", text \o e.message)

\* The names without those the path repeats in the query
DatabaseNamesUnique(path, query) ==
    LET path_dbs == IF path # <<>> /\ path # <<"/">>
                    THEN SplitStripped(LStrip(path), ",") ELSE <<>>
        query_dbs == IF query # <<>> /\ QueryHas(query, <<"databases">>)
                     THEN SplitStripped(QueryValues(query, <<"databases">>)[1], ",")
                     ELSE <<>>
    IN  path_dbs \o SelectSeq(query_dbs,
                              LAMBDA db : \A i \in 1..Len(path_dbs) : path_dbs[i] # db)

\* Lines 60-73: the names of the path, then the names of the first databases
\* parameter of the query
DatabaseNames(path, query) ==
    (IF path # <<>> /\ path # <<"/">>
     THEN SplitStripped(LStrip(path), ",") ELSE <<>>)
    \o (IF query # <<>> /\ QueryHas(query, <<"databases">>)
        THEN SplitStripped(QueryValues(query, <<"databases">>)[1], ",") ELSE <<>>)

\* Lines 79-85: connection_timeout
ConnectionTimeout(query) ==
    IF query # <<>> /\ QueryHas(query, <<"timeout">>)
    THEN int(QueryValues(query, <<"timeout">>)[1])
    ELSE Returns(30)

\* default_port, lines 45 and 48
DefaultPort(scheme) == IF scheme = <<"mysql">> THEN 3306 ELSE 5432

\* The body of parse_database_uri, given what urlparse gave back
ParsedDatabaseUri(parsed) ==
    IF parsed.scheme \notin {<<"mysql">>, <<"postgresql">>, <<"postgres">>}
    THEN Raises("URIParseError", <<"Unsupported database type: ">> \o parsed.scheme)
    ELSE IF ~PortOr(parsed.netloc, DefaultPort(parsed.scheme)).ok
    THEN Wrapped(<<"Database URI parsing failed: ">>,
                 PortOr(parsed.netloc, DefaultPort(parsed.scheme)))
    ELSE IF DatabaseNames(parsed.path, parsed.query) = <<>>
    THEN Raises("URIParseError", <<"No database names specified in URI">>)
    ELSE IF ~ConnectionTimeout(parsed.query).ok
    THEN Wrapped(<<"Database URI parsing failed: ">>, ConnectionTimeout(parsed.query))
    ELSE Returns(DatabaseConfig(
             IF parsed.scheme = <<"mysql">> THEN "mysql" ELSE "postgresql",
             Or(parsed.hostname, <<"localhost">>),
             PortOr(parsed.netloc, DefaultPort(parsed.scheme)).value,
             Or(parsed.username, <<>>),
             DatabaseNames(parsed.path, parsed.query),
             ConnectionTimeout(parsed.query).value))

\* DatabaseURIParser.parse_database_uri
parse_database_uri(uri) == ParsedDatabaseUri(urlparse(uri))

\* aws_regions, lines 168-172
AwsRegions ==
    { <<"us-east-1">>, <<"us-east-2">>, <<"us-west-1">>, <<"us-west-2">>,
      <<"eu-west-1">>, <<"eu-west-2">>, <<"eu-west-3">>, <<"eu-central-1">>,
      <<"ap-southeast-1">>, <<"ap-southeast-2">>, <<"ap-northeast-1">> }

\* Lines 187-199: prefix
PrefixOfQuery(query) ==
    IF query = <<>> THEN None_
    ELSE IF QueryHas(query, <<"prefix">>) /\ QueryValues(query, <<"prefix">>) # <<>>
    THEN QueryValues(query, <<"prefix">>)[1]
    ELSE IF QueryHas(query, <<"prefix">>) THEN <<>>
    ELSE None_

\* path.split('/')[0] if path else ''
FirstSegment(path) == IF path # <<>> THEN Split(path, "/")[1] ELSE <<>>

\* The body of parse_storage_uri, given what urlparse gave back
ParsedStorageUri(parsed) ==
    IF parsed.scheme \notin {<<"r2">>, <<"s3">>}
    THEN Raises("URIParseError", <<"Unsupported storage type: ">> \o parsed.scheme)
    ELSE IF Or(parsed.username, <<>>) = <<>> \/ Or(parsed.password, <<>>) = <<>>
    THEN Raises("URIParseError", <<"Missing access credentials in storage URI">>)
    ELSE IF Or(parsed.hostname, <<>>) = <<>>
    THEN Raises("URIParseError",
                IF parsed.scheme = <<"r2">>
                THEN <<"Missing endpoint in R2 URI">>
                ELSE <<"Missing region or endpoint in S3 URI">>)
    ELSE IF FirstSegment(LStrip(parsed.path)) = <<>>
    THEN Raises("URIParseError", <<"Missing bucket name in storage URI">>)
    ELSE Returns(StorageConfig(
             parsed.scheme[1],
             IF parsed.scheme = <<"s3">> /\ parsed.hostname \in AwsRegions
             THEN None_ ELSE <<"https", ":", "/", "/">> \o parsed.hostname,
             parsed.username,
             parsed.password,
             FirstSegment(LStrip(parsed.path)),
             IF parsed.scheme = <<"r2">> THEN <<"auto">>
             ELSE IF parsed.hostname \in AwsRegions THEN parsed.hostname
             ELSE <<"us-east-1">>,
             PrefixOfQuery(parsed.query)))

\* StorageURIParser.parse_storage_uri
parse_storage_uri(uri) == ParsedStorageUri(urlparse(uri))

\* s.startswith('http'), for a string whose first word is whole
StartsWithHttp(s) == s # <<>> /\ s[1] \in {"http", "https"}

\* The body of parse_legacy_storage_format, given config_str.split(':')
LegacyParts(parts) ==
    IF Len(parts) < 4
    THEN Raises("URIParseError", <<"Insufficient legacy format configuration items">>)
    ELSE IF parts[1] \notin {<<"r2">>, <<"s3">>}
    THEN Raises("URIParseError", <<"Unsupported storage type: ">> \o parts[1])
    ELSE LET region_or_endpoint == IF Len(parts) > 4 THEN parts[5] ELSE <<>> IN
         Returns(StorageConfig(
             parts[1][1],
             IF StartsWithHttp(region_or_endpoint) THEN region_or_endpoint ELSE None_,
             parts[2],
             parts[3],
             parts[4],
             IF parts[1] = <<"r2">> THEN <<"auto">>
             ELSE IF StartsWithHttp(region_or_endpoint) THEN <<"us-east-1">>
             ELSE Or(region_or_endpoint, <<"us-east-1">>),
             IF Len(parts) > 5 THEN parts[6] ELSE None_))

\* LegacyFormatParser.parse_legacy_storage_format
parse_legacy_storage_format(config_str) == LegacyParts(Split(config_str, ":"))

\* The loop of parse_databases_config: the first URI that fails raises
RECURSIVE parse_database_uris(_)
parse_database_uris(uri_list) ==
    IF uri_list = <<>> THEN Returns(<<>>)
    ELSE LET first == parse_database_uri(Head(uri_list)) IN
         IF ~first.ok THEN first
         ELSE LET others == parse_database_uris(Tail(uri_list)) IN
              IF ~others.ok THEN others
              ELSE Returns(<<first.value>> \o others.value)

\* MultiConfigParser.parse_databases_config
parse_databases_config(config_str) ==
    IF config_str = <<>> THEN Returns(<<>>)
    ELSE parse_database_uris(SplitStripped(config_str, "|"))

\* '://' in uri
HasSchemeSeparator(uri) == Contains(uri, <<":", "/", "/">>)

\* A loop that returns what was parsed before the URI that fails
RECURSIVE ParseStorageUrisSoFar(_)
ParseStorageUrisSoFar(uri_list) ==
    IF uri_list = <<>> THEN Returns(<<>>)
    ELSE LET uri == Head(uri_list)
             first == IF HasSchemeSeparator(uri)
                      THEN parse_storage_uri(uri)
                      ELSE parse_legacy_storage_format(uri)
         IN  IF ~first.ok THEN Returns(<<>>)
             ELSE Returns(<<first.value>> \o ParseStorageUrisSoFar(Tail(uri_list)).value)

\* The loop of parse_storages_config: the first URI that fails raises
RECURSIVE parse_storage_uris(_)
parse_storage_uris(uri_list) ==
    IF uri_list = <<>> THEN Returns(<<>>)
    ELSE LET uri == Head(uri_list)
             first == IF HasSchemeSeparator(uri)
                      THEN parse_storage_uri(uri)
                      ELSE parse_legacy_storage_format(uri)
         IN  IF ~first.ok THEN first
             ELSE LET others == parse_storage_uris(Tail(uri_list)) IN
                  IF ~others.ok THEN others
                  ELSE Returns(<<first.value>> \o others.value)

\* MultiConfigParser.parse_storages_config
parse_storages_config(config_str) ==
    IF config_str = <<>> THEN Returns(<<>>)
    ELSE parse_storage_uris(SplitStripped(config_str, "|"))

-----------------------------------------------------------------------------
(* Strategy discovery (src/core/strategy_manager.py) *)

\* str(n)
IntStr(n) == <<"1", "2", "3", "4", "5", "6", "7", "8", "9">>[n]

\* f"_{strategy_index}", and "" for the shorthand format
Suffix(n) == IF n = 0 THEN <<>> ELSE <<"_", IntStr(n)>>

\* f"{name}{strategy_suffix}"
EnvKey(name, strategy_suffix) == <<name>> \o strategy_suffix

\* os.getenv(key) in the environment e
getenv(e, key) == IF key \in DOMAIN e THEN e[key] ELSE None_

\* os.getenv(key, default) in the environment e
getenv_default(e, key, default) ==
    IF getenv(e, key) = None_ THEN default ELSE getenv(e, key)

\* bool(value) of an Optional[str]: neither None nor ""
IsTrue(value) == value # None_ /\ value # <<>>

\* StrategyManager._parse_bool_env
_parse_bool_env(e, env_key, default) ==
    IF getenv(e, env_key) = None_ THEN default
    ELSE getenv(e, env_key) \in {<<"true">>, <<"1">>, <<"yes">>, <<"on">>}

\* The configuration strings of the model's environments
MysqlUri == <<"mysql", ":", "/", "/", "u", ":", "p", "@", "db1", "/", "app">>

TwoDatabaseUris ==
    <<"mysql", ":", "/", "/", "u", ":", "p", "@", "db1", "/", "app", " ", "|", " ",
      "postgres", ":", "/", "/", "u", ":", "p", "@", "db2", "/", "app", ",", "logs">>

OracleUri == <<"oracle", ":", "/", "/", "u", ":", "p", "@", "db3", "/", "app">>

R2Uri == <<"r2", ":", "/", "/", "k", ":", "s", "@", "acct", "/", "bkt1">>

LegacyS3 == <<"s3", ":", "k", ":", "s", ":", "bkt2", ":", "us-east-1", ":", "a", "/">>

\* DATABASES_n: unset, empty, two databases, an engine that is not supported
IndexedDatabases == {None_, <<>>, TwoDatabaseUris, OracleUri}

\* STORAGES_n: unset, one storage
IndexedStorages == {None_, R2Uri}

\* The values of the per-strategy settings: unset, and for RETENTION_DAYS
\* a value int() takes and a value it refuses
ScalarValues(name) ==
    CASE name = "RETENTION_DAYS" -> {None_, <<"0">>, <<"abc">>}
      [] name = "BACKUP_TIMEOUT" -> {None_}
      [] OTHER -> {None_}

ScalarNames == <<"BACKUP_NAME_TEMPLATE", "COMPRESSION", "RETENTION_DAYS",
                 "MAX_BACKUP_SIZE_MB", "BACKUP_TIMEOUT", "VERIFY_BACKUP">>

\* The per-strategy settings an environment can hold under one suffix
ScalarSettings(strategy_suffix) ==
    { [k \in { EnvKey(ScalarNames[i], strategy_suffix) : i \in 1..Len(ScalarNames) } |->
          CASE k[1] = "COMPRESSION"    -> c
            [] k[1] = "RETENTION_DAYS" -> r
            [] k[1] = "BACKUP_TIMEOUT" -> t
            [] OTHER -> None_] :
        c \in ScalarValues("COMPRESSION"),
        r \in ScalarValues("RETENTION_DAYS"),
        t \in ScalarValues("BACKUP_TIMEOUT") }

\* The environments discovery is run in: the shorthand pair and the indexed
\* pairs 1..MaxIndex; every other DATABASES_n and STORAGES_n is unset.
Environments ==
    { [k \in { EnvKey("DATABASES", Suffix(n)) : n \in 0..MaxIndex }
              \cup { EnvKey("STORAGES", Suffix(n)) : n \in 0..MaxIndex } |->
          LET n == IF Len(k) = 1 THEN 0
                   ELSE CHOOSE m \in 1..MaxIndex : IntStr(m) = k[3]
          IN  IF k[1] = "DATABASES" THEN dbs[n] ELSE sts[n]] :
        dbs \in { f \in [0..MaxIndex -> IndexedDatabases \cup {MysqlUri}] :
                    /\ f[0] \in {None_, MysqlUri}
                    /\ \A n \in 1..MaxIndex : f[n] \in IndexedDatabases },
        sts \in { f \in [0..MaxIndex -> IndexedStorages \cup {LegacyS3}] :
                    /\ f[0] \in {None_, LegacyS3}
                    /\ \A n \in 1..MaxIndex : f[n] \in IndexedStorages } }

StrategyError(msg) == [type |-> "StrategyError", message |-> msg]

\* The body of _parse_single_strategy in the environment e, given what the two
\* parsers gave back: what it returns or raises, and the environment variables
\* it reads on the way
BuildStrategy(e, strategy_id, databases, storages, strategy_suffix) ==
    LET key(i) == EnvKey(ScalarNames[i], strategy_suffix)
        retention_days == int(getenv_default(e, key(3), <<"30">>))
        backup_timeout_minutes == int(getenv_default(e, key(5), <<"60">>))
    IN  IF ~databases.ok THEN [result |-> databases, read |-> <<>>]
        ELSE IF databases.value = <<>>
        THEN [result |-> Raises("StrategyError", <<"Strategy ">> \o strategy_id
                  \o <<" failed to parse valid database configuration">>),
              read |-> <<>>]
        ELSE IF ~storages.ok THEN [result |-> storages, read |-> <<>>]
        ELSE IF storages.value = <<>>
        THEN [result |-> Raises("StrategyError", <<"Strategy ">> \o strategy_id
                  \o <<" failed to parse valid storage configuration">>),
              read |-> <<>>]
        ELSE IF ~retention_days.ok
        THEN [result |-> retention_days, read |-> <<key(1), key(2), key(3)>>]
        ELSE IF ~backup_timeout_minutes.ok
        THEN [result |-> backup_timeout_minutes,
              read |-> <<key(1), key(2), key(3), key(4), key(5)>>]
        ELSE [result |-> Returns(BackupStrategy(strategy_id, databases.value,
                             storages.value, _parse_bool_env(e, key(2), TRUE),
                             retention_days.value, backup_timeout_minutes.value,
                             _parse_bool_env(e, key(6), TRUE))),
              read |-> [i \in 1..6 |-> key(i)]]

\* self.parser.parse_databases_config and self.parser.parse_storages_config
\* of every configuration string of the model's environments
ParsedDatabases ==
    [s \in (IndexedDatabases \cup {MysqlUri}) \ {None_} |-> parse_databases_config(s)]

ParsedStorages ==
    [s \in (IndexedStorages \cup {LegacyS3}) \ {None_} |-> parse_storages_config(s)]

\* StrategyManager._parse_single_strategy in the environment e
_parse_single_strategy(e, strategy_id, db_config_str, storage_config_str, strategy_suffix) ==
    BuildStrategy(e, strategy_id, ParsedDatabases[db_config_str],
                  ParsedStorages[storage_config_str], strategy_suffix)

\* The environment with the settings that were read added to what is known of it
Reveal(e, read) ==
    [k \in DOMAIN env \cup { read[i] : i \in 1..Len(read) } |-> getenv(e, k)]

InitDisc ==
    /\ env \in Environments
    /\ reads = <<>>
    /\ dpc = "start"
    /\ strategy_index = 0
    /\ strategies = <<>>
    /\ derror = None_
    /\ clients = <<>>
    /\ lpc = "load_config"
    /\ loaded = None_
    /\ lerror = None_

\* A discovery that probes the indexed variables whatever the shorthand pair holds
DiscoverStartIndexed ==
    /\ dpc = "start"
    /\ reads' = <<EnvKey("DATABASES", <<>>), EnvKey("STORAGES", <<>>)>>
    /\ strategy_index' = 1
    /\ dpc' = "probe"
    /\ UNCHANGED <<env, strategies, derror, clients, orchVars, pathVars, fnVars, loadVars>>

\* parse_strategies_from_env up to the loop: lines 52-75
DiscoverStart ==
    /\ dpc = "start"
    /\ LET simple_db_config == getenv(env, EnvKey("DATABASES", <<>>))
           simple_storage_config == getenv(env, EnvKey("STORAGES", <<>>))
           probed == <<EnvKey("DATABASES", <<>>), EnvKey("STORAGES", <<>>)>>
       IN  IF IsTrue(simple_db_config) /\ IsTrue(simple_storage_config)
           THEN \E settings \in ScalarSettings(<<>>) :
                  LET e == settings @@ env
                      parsed == _parse_single_strategy(e, StrategyId(1),
                                    simple_db_config, simple_storage_config, <<>>)
                  IN  /\ reads' = probed \o parsed.read
                      /\ env' = Reveal(e, parsed.read)
                      /\ IF parsed.result.ok
                         THEN /\ strategies' = <<parsed.result.value>>
                              /\ dpc' = "check_clients"
                              /\ UNCHANGED derror
                         ELSE /\ derror' = [type |-> parsed.result.type,
                                            message |-> parsed.result.message]
                              /\ dpc' = "raised"
                              /\ UNCHANGED strategies
                      /\ UNCHANGED strategy_index
           ELSE /\ reads' = probed
                /\ strategy_index' = 1
                /\ dpc' = "probe"
                /\ UNCHANGED <<env, strategies, derror>>
    /\ UNCHANGED <<clients, orchVars, pathVars, fnVars, loadVars>>

\* A loop that goes on to the next index when both variables of the probed
\* index are empty or unset, where the code breaks out of the loop.
ProbeIndexSkipGap ==
    IF strategy_index <= MaxIndex
    THEN /\ strategy_index' = strategy_index + 1
         /\ UNCHANGED <<dpc, strategies, derror>>
    ELSE /\ dpc' = IF strategies = <<>> THEN "raised" ELSE "check_clients"
         /\ derror' = IF strategies = <<>>
                      THEN [type |-> "StrategyError", message |-> <<"No strategy configuration found">>]
                      ELSE derror
         /\ UNCHANGED <<strategy_index, strategies>>

\* Lines 85-86 and 106-107: break, and the check that follows the loop
ProbeIndexBreak ==
    /\ IF strategies = <<>>
       THEN /\ derror' = StrategyError(<<"No strategy configuration found, please set DATABASES and STORAGES environment variables (single strategy) or DATABASES_1 and STORAGES_1 environment variables (multi-strategy)">>)
            /\ dpc' = "raised"
       ELSE /\ dpc' = "check_clients"
            /\ UNCHANGED derror
    /\ UNCHANGED <<strategy_index, strategies>>

\* A loop that takes an index with one variable of the pair missing for the
\* end of the list, where the code raises.
ProbeIndexIncompleteBreak(db_env_key, storage_env_key) ==
    ProbeIndexBreak

\* Lines 89-90: one variable of the pair is empty or unset
ProbeIndexIncomplete(db_env_key, storage_env_key) ==
    /\ derror' = StrategyError(
           <<"Strategy ", IntStr(strategy_index),
             " configuration incomplete: need to set both ">>
           \o db_env_key \o <<" and ">> \o storage_env_key)
    /\ dpc' = "raised"
    /\ UNCHANGED <<strategy_index, strategies>>

\* One iteration of the loop of parse_strategies_from_env: lines 76-107
ProbeIndex ==
    /\ dpc = "probe"
    /\ LET db_env_key == EnvKey("DATABASES", Suffix(strategy_index))
           storage_env_key == EnvKey("STORAGES", Suffix(strategy_index))
           db_config_str == getenv(env, db_env_key)
           storage_config_str == getenv(env, storage_env_key)
           probed == <<db_env_key, storage_env_key>>
       IN  IF ~IsTrue(db_config_str) /\ ~IsTrue(storage_config_str)
           THEN /\ ProbeIndexBreak
                /\ reads' = reads \o probed
                /\ UNCHANGED env
           ELSE IF ~IsTrue(db_config_str) \/ ~IsTrue(storage_config_str)
           THEN /\ ProbeIndexIncomplete(db_env_key, storage_env_key)
                /\ reads' = reads \o probed
                /\ UNCHANGED env
           ELSE \E settings \in ScalarSettings(Suffix(strategy_index)) :
                  LET e == settings @@ env
                      parsed == _parse_single_strategy(e, StrategyId(strategy_index),
                                    db_config_str, storage_config_str,
                                    Suffix(strategy_index))
                  IN  /\ reads' = reads \o probed \o parsed.read
                      /\ env' = Reveal(e, parsed.read)
                      /\ IF parsed.result.ok
                         THEN /\ strategies' = Append(strategies, parsed.result.value)
                              /\ strategy_index' = strategy_index + 1
                              /\ UNCHANGED <<dpc, derror>>
                         ELSE /\ derror' = StrategyError(
                                     <<"Failed to parse strategy ",
                                       IntStr(strategy_index), ": ">>
                                     \o parsed.result.message)
                              /\ dpc' = "raised"
                              /\ UNCHANGED <<strategy_index, strategies>>
    /\ UNCHANGED <<clients, orchVars, pathVars, fnVars, loadVars>>

\* The orders a set can be iterated in
Orders(S) ==
    { f \in [1..Cardinality(S) -> S] :
        \A i, j \in 1..Cardinality(S) : i # j => f[i] # f[j] }

\* The distinct engines of the databases of a list of strategies
RequiredDbTypes(list) ==
    UNION { { list[i].databases[j].database_type : j \in 1..Len(list[i].databases) } :
            i \in 1..Len(list) }

\* _check_mysql_client, _check_postgresql_client: the system client is looked
\* for first, then the Python library; "none" stands for None
CheckDatabaseClient(has_system, has_python) ==
    IF has_system THEN "system" ELSE IF has_python THEN "python" ELSE "none"

MissingClientsError(missing_clients) ==
    StrategyError(
        <<"Database client check failed: ",
          "Missing client tools for the following database types: ">>
        \o Join(<<", ">>, [i \in 1..Len(missing_clients) |-> <<missing_clients[i]>>]))

\* A check that gives up at the first engine without a client
ClientCheckRaiseFirst(missing_clients) ==
    /\ derror' = MissingClientsError(<<missing_clients[1]>>)
    /\ dpc' = "raised"

\* check_all_required_clients lines 54-57 and _check_database_clients lines
\* 173-178: missing_clients holds the engines without a client, in the order
\* the set of engines was iterated
ClientCheckRaise(missing_clients) ==
    /\ derror' = MissingClientsError(missing_clients)
    /\ dpc' = "raised"

\* StrategyManager._check_database_clients, and the return that follows it.
\* What the machine has is found out by the check itself.
CheckDatabaseClients ==
    /\ dpc = "check_clients"
    /\ \E system, python \in SUBSET RequiredDbTypes(strategies) :
         LET found == [t \in RequiredDbTypes(strategies) |->
                          CheckDatabaseClient(t \in system, t \in python)]
             missing == { t \in RequiredDbTypes(strategies) : found[t] = "none" }
         IN  /\ clients' = found
             /\ IF missing = {}
                THEN /\ dpc' = "returned"
                     /\ UNCHANGED derror
                ELSE \E missing_clients \in Orders(missing) :
                       ClientCheckRaise(missing_clients)
    /\ UNCHANGED <<env, reads, strategy_index, strategies, orchVars, pathVars, fnVars, loadVars>>

-----------------------------------------------------------------------------
(* Strategy validation (StrategyManager.validate_strategies) *)

\* lines 225-230: what the loop over strategy.databases complains about, the
\* end of the message of the first entry that fails a test (<<>> if none does)
DatabaseComplaint(databases) ==
    LET bad(i) == \/ databases[i].database_names = <<>>
                  \/ Or(databases[i].host, <<>>) = <<>>
                  \/ Or(databases[i].username, <<>>) = <<>>
    IN  IF \A i \in 1..Len(databases) : ~bad(i) THEN <<>>
        ELSE LET i == CHOOSE i \in 1..Len(databases) :
                          bad(i) /\ \A j \in 1..(i - 1) : ~bad(j)
             IN  IF databases[i].database_names = <<>>
                 THEN <<" database configuration missing database names">>
                 ELSE <<" database configuration incomplete">>

\* lines 236-238: the same for the loop over strategy.storages
StorageComplaint(storages) ==
    IF \E i \in 1..Len(storages) :
           \/ Or(storages[i].bucket, <<>>) = <<>>
           \/ Or(storages[i].access_key, <<>>) = <<>>
           \/ Or(storages[i].secret_key, <<>>) = <<>>
    THEN <<" storage configuration incomplete">>
    ELSE <<>>

\* lines 221-245: the tests of one strategy's own fields
FieldsComplaint(strategy) ==
    IF strategy.databases = <<>>
    THEN <<"Strategy ">> \o strategy.strategy_id \o <<" has no database configuration">>
    ELSE IF DatabaseComplaint(strategy.databases) # <<>>
    THEN <<"Strategy ">> \o strategy.strategy_id \o DatabaseComplaint(strategy.databases)
    ELSE IF strategy.storages = <<>>
    THEN <<"Strategy ">> \o strategy.strategy_id \o <<" has no storage configuration">>
    ELSE IF StorageComplaint(strategy.storages) # <<>>
    THEN <<"Strategy ">> \o strategy.strategy_id \o StorageComplaint(strategy.storages)
    ELSE IF strategy.retention_days <= 0
    THEN <<"Strategy ">> \o strategy.strategy_id
             \o <<" retention days must be greater than 0">>
    ELSE IF strategy.backup_timeout_minutes <= 0
    THEN <<"Strategy ">> \o strategy.strategy_id
             \o <<" backup timeout must be greater than 0">>
    ELSE <<>>

\* The body of the loop without the test of lines 217-218.
StrategyComplaintAnyId(strategy, strategy_ids) == FieldsComplaint(strategy)

\* lines 215-245, the body of the loop for one strategy, strategy_ids being the
\* ids of the strategies before it: the message of the StrategyError it raises,
\* <<>> if it raises none
StrategyComplaint(strategy, strategy_ids) ==
    IF strategy.strategy_id \in strategy_ids
    THEN <<"Duplicate strategy ID: ">> \o strategy.strategy_id
    ELSE FieldsComplaint(strategy)

\* lines 213-245: the loop from the i-th strategy on
RECURSIVE ValidateFrom(_, _, _)
ValidateFrom(list, i, strategy_ids) ==
    IF i > Len(list) THEN Returns(TRUE)
    ELSE IF StrategyComplaint(list[i], strategy_ids) # <<>>
    THEN Raises("StrategyError", StrategyComplaint(list[i], strategy_ids))
    ELSE ValidateFrom(list, i + 1, strategy_ids \cup {list[i].strategy_id})

\* StrategyManager.validate_strategies
validate_strategies(list) ==
    IF list = <<>>
    THEN Raises("StrategyError", <<"No backup strategies configured">>)
    ELSE ValidateFrom(list, 1, {})

-----------------------------------------------------------------------------
(* Loading the configuration (ConfigManager.load_config, run_backup) *)

BackupConfig(list) ==
    [strategies |-> list, global_compression |-> None_,
     global_retention_days |-> None_, global_verify_backup |-> None_]

ConfigError(msg) == [type |-> "ConfigError", message |-> msg]

\* A load_config that hands over whatever discovery had parsed when it stopped
LoadConfigPartial ==
    /\ lpc = "load_config"
    /\ dpc \in {"returned", "raised"}
    /\ loaded' = BackupConfig(strategies)
    /\ lpc' = "loaded"
    /\ UNCHANGED <<lerror, discVars, orchVars, pathVars, fnVars>>

\* ConfigManager.load_config, lines 39-49, from the point where
\* parse_strategies_from_env has returned or raised
LoadConfig ==
    /\ lpc = "load_config"
    /\ dpc \in {"returned", "raised"}
    /\ IF dpc = "raised"
       THEN /\ lerror' = ConfigError(<<"Configuration loading failed: ">>
                                      \o derror.message)
            /\ lpc' = "config_error"
            /\ UNCHANGED loaded
       ELSE IF ~validate_strategies(strategies).ok
       THEN /\ lerror' = ConfigError(<<"Configuration loading failed: ">>
                                      \o validate_strategies(strategies).message)
            /\ lpc' = "config_error"
            /\ UNCHANGED loaded
       ELSE /\ loaded' = BackupConfig(strategies)
            /\ lpc' = "loaded"
            /\ UNCHANGED lerror
    /\ UNCHANGED <<discVars, orchVars, pathVars, fnVars>>

\* run_backup, lines 228-232: the manager is made from the configuration that
\* load_config returned, and its create_backup is called
RunBackupCreateBackup ==
    /\ lpc = "loaded"
    /\ lpc' = "create_backup"
    /\ config' = loaded.strategies
    /\ pc' = "start"
    /\ UNCHANGED <<session, raised, si, strategyLocals, nameLocals, result,
                   temp_dirs, calls, touched, rmtree_works, loaded, lerror,
                   discVars, pathVars, fnVars>>

\* run_backup, lines 253-255: the ConfigError is logged and False returned
RunBackupExcept ==
    /\ lpc = "config_error"
    /\ lpc' = "return_false"
    /\ UNCHANGED <<loaded, lerror, discVars, orchVars, pathVars, fnVars>>

DiscInit == InitDisc /\ IdleOrch /\ IdlePath /\ IdleFn

DiscNext ==
    \/ DiscoverStart
    \/ ProbeIndex
    \/ CheckDatabaseClients
    \/ LoadConfig
    \/ RunBackupCreateBackup
    \/ RunBackupExcept

SpecDiscovery == DiscInit /\ [][DiscNext]_vars

-----------------------------------------------------------------------------
(* The functions of the configuration layer called on their own *)

CompleteDatabase == DatabaseConfig("mysql", <<"db1">>, 3306, <<"u">>, <<<<"app">>>>, 30)

CompleteStorage ==
    StorageConfig("r2", <<"https", ":", "/", "/", "acct">>, <<"k">>, <<"s">>,
                  <<"bkt">>, <<"auto">>, None_)

\* What a strategy given to validate_strategies can look like: the kinds are
\* the tests of lines 217-245 it fails
StrategyKinds ==
    {"complete", "no_databases", "no_names", "no_host", "no_username",
     "no_storages", "no_bucket", "no_secret", "zero_retention",
     "negative_timeout", "no_databases_zero_retention",
     "no_storages_zero_timeout"}

StrategyOfKind(id, kind) ==
    BackupStrategy(id,
        CASE kind \in {"no_databases", "no_databases_zero_retention"} -> <<>>
          [] kind = "no_names" ->
               << CompleteDatabase, [CompleteDatabase EXCEPT !.database_names = <<>>] >>
          [] kind = "no_host" -> << [CompleteDatabase EXCEPT !.host = <<>>] >>
          [] kind = "no_username" ->
               << CompleteDatabase, [CompleteDatabase EXCEPT !.username = <<>>] >>
          [] OTHER -> << CompleteDatabase >>,
        CASE kind \in {"no_storages", "no_storages_zero_timeout"} -> <<>>
          [] kind = "no_bucket" -> << [CompleteStorage EXCEPT !.bucket = <<>>] >>
          [] kind = "no_secret" ->
               << CompleteStorage, [CompleteStorage EXCEPT !.secret_key = <<>>] >>
          [] OTHER -> << CompleteStorage >>,
        TRUE,
        IF kind \in {"zero_retention", "no_databases_zero_retention"} THEN 0 ELSE 30,
        CASE kind = "negative_timeout" -> -1
          [] kind = "no_storages_zero_timeout" -> 0
          [] OTHER -> 60,
        TRUE)

StrategyIds == {<<"strategy_1">>, <<"strategy_2">>, <<"strategy_3">>}

\* The lists of at most MaxStrategies strategies given to validate_strategies,
\* as the (id, kind) pairs they are built from
StrategyLists ==
    UNION { [1..n -> StrategyIds \X StrategyKinds] : n \in 0..MaxStrategies }

InitValidate ==
    /\ fn = "validate_strategies"
    /\ fn_args \in StrategyLists
    /\ fn_input = [i \in 1..Len(fn_args) |-> StrategyOfKind(fn_args[i][1], fn_args[i][2])]
    /\ fn_result = <<>>

ValidateStrategies ==
    /\ fn = "validate_strategies"
    /\ fn_result = <<>>
    /\ fn_result' = validate_strategies(fn_input)
    /\ UNCHANGED <<fn, fn_args, fn_input, orchVars, discVars, pathVars, loadVars>>

\* An entry of a comma-separated list of database names as it is written
\* (raw), and the name it stands for (<<>> when it is blank)
NameEntries ==
    { [raw |-> <<"app">>, name |-> <<"app">>],
      [raw |-> <<" ", "logs", " ">>, name |-> <<"logs">>],
      [raw |-> <<>>, name |-> <<>>],
      [raw |-> <<" ">>, name |-> <<>>] }

\* The lists of at most MaxEntries elements of S
EntryLists(S) == UNION { [1..n -> S] : n \in 0..MaxEntries }

\* The entries as they are written, with sep between them
JoinRaw(sep, entries) == Join(<<sep>>, [i \in 1..Len(entries) |-> entries[i].raw])

\* Scheme, port and timeout parameter of the database URIs given to
\* parse_database_uri (<<>>: no port, None_: no timeout parameter)
DatabaseUriVariants ==
    { [scheme |-> <<"mysql">>, port |-> <<>>, timeout |-> None_],
      [scheme |-> <<"postgres">>, port |-> <<>>, timeout |-> None_],
      [scheme |-> <<"oracle">>, port |-> <<>>, timeout |-> None_],
      [scheme |-> <<"mysql">>, port |-> <<"3307">>, timeout |-> <<"5">>],
      [scheme |-> <<"mysql">>, port |-> <<"abc">>, timeout |-> None_],
      [scheme |-> <<"mysql">>, port |-> <<>>, timeout |-> <<"abc">>],
      [scheme |-> <<"postgresql">>, port |-> <<"abc">>, timeout |-> <<"abc">>] }

\* What a database URI is built from: a variant, the entries of the path
\* (has_path: whether there is a "/" after the host) and the entries of the
\* databases parameter (has_databases: whether the query has the parameter)
DatabaseUriArgs ==
    { [variant |-> v, has_path |-> hp, path |-> p, has_databases |-> hd, databases |-> d] :
        v \in DatabaseUriVariants, hp \in BOOLEAN, p \in EntryLists(NameEntries),
        hd \in BOOLEAN, d \in EntryLists(NameEntries) }

\* scheme://u:p@db1[:port][/entries][?databases=entries][&timeout=n]
DatabaseUriOf(a) ==
    LET params == (IF a.has_databases
                   THEN << <<"databases", "=">> \o JoinRaw(",", a.databases) >>
                   ELSE <<>>)
                  \o (IF a.variant.timeout # None_
                      THEN << <<"timeout", "=">> \o a.variant.timeout >>
                      ELSE <<>>)
    IN  a.variant.scheme \o <<":", "/", "/", "u", ":", "p", "@", "db1">>
        \o (IF a.variant.port # <<>> THEN <<":">> \o a.variant.port ELSE <<>>)
        \o (IF a.has_path THEN <<"/">> \o JoinRaw(",", a.path) ELSE <<>>)
        \o (IF params # <<>> THEN <<"?">> \o Join(<<"&">>, params) ELSE <<>>)

InitDatabaseUri ==
    /\ fn = "parse_database_uri"
    /\ fn_args \in { a \in DatabaseUriArgs :
                       /\ ~a.has_path => a.path = <<>>
                       /\ ~a.has_databases => a.databases = <<>> }
    /\ fn_input = DatabaseUriOf(fn_args)
    /\ fn_result = <<>>

ParseDatabaseUri ==
    /\ fn = "parse_database_uri"
    /\ fn_result = <<>>
    /\ fn_result' = parse_database_uri(fn_input)
    /\ UNCHANGED <<fn, fn_args, fn_input, orchVars, discVars, pathVars, loadVars>>

\* What a storage URI is built from.  prefix: the value of the prefix
\* parameter, <<>> when the parameter is written without a value, None_ when
\* the query has no such parameter.  other: where the query has a parameter
\* that is not prefix.
StorageUriArgs ==
    { [scheme |-> sc, credentials |-> cr, host |-> h, path |-> p, prefix |-> pf,
       other |-> o] :
        sc \in {<<"r2">>, <<"s3">>},
        cr \in {<<"k", ":", "s", "@">>, <<"k", "@">>},
        h \in {<<"acct">>, <<"us-east-1">>, <<>>},
        p \in {<<>>, <<"/">>, <<"/", "bkt">>, <<"/", "bkt", "/", "sub">>},
        pf \in {None_, <<>>, <<"backups", "/">>, <<"a", "/", "b">>},
        o \in {"none", "before", "after"} }

\* scheme://credentials@host/path[?[region=x&]prefix=value[&region=x]]
StorageUriOf(a) ==
    LET params == (IF a.other = "before" THEN << <<"region", "=", "x">> >> ELSE <<>>)
                  \o (IF a.prefix # None_ THEN << <<"prefix", "=">> \o a.prefix >>
                      ELSE <<>>)
                  \o (IF a.other = "after" THEN << <<"region", "=", "x">> >> ELSE <<>>)
    IN  a.scheme \o <<":", "/", "/">> \o a.credentials \o a.host \o a.path
        \o (IF params # <<>> THEN <<"?">> \o Join(<<"&">>, params) ELSE <<>>)

InitStorageUri ==
    /\ fn = "parse_storage_uri"
    /\ fn_args \in StorageUriArgs
    /\ fn_input = StorageUriOf(fn_args)
    /\ fn_result = <<>>

ParseStorageUri ==
    /\ fn = "parse_storage_uri"
    /\ fn_result = <<>>
    /\ fn_result' = parse_storage_uri(fn_input)
    /\ UNCHANGED <<fn, fn_args, fn_input, orchVars, discVars, pathVars, loadVars>>

\* The fields of the legacy strings given to the parsers: type, access key,
\* secret key, bucket, region or endpoint, prefix, or fewer of them
LegacyFieldLists ==
    { SubSeq(<<t, <<"k">>, <<"s">>, <<"bkt">>, f5, <<"pre", "/">>>>, 1, n) :
        t \in {<<"s3">>, <<"r2">>, <<"gcs">>},
        f5 \in {<<"eu-west-1">>, <<>>, <<"https", ":", "/", "/", "host">>,
                <<"http", ":", "/", "/", "host">>},
        n \in 3..6 }

\* type:access_key:secret_key:bucket:region_or_endpoint:prefix
LegacyTextOf(fields) == Join(<<":">>, fields)

InitLegacy ==
    /\ fn = "parse_legacy_storage_format"
    /\ fn_args \in { [fields |-> f] : f \in LegacyFieldLists }
    /\ fn_input = LegacyTextOf(fn_args.fields)
    /\ fn_result = <<>>

ParseLegacyStorageFormat ==
    /\ fn = "parse_legacy_storage_format"
    /\ fn_result = <<>>
    /\ fn_result' = parse_legacy_storage_format(fn_input)
    /\ UNCHANGED <<fn, fn_args, fn_input, orchVars, discVars, pathVars, loadVars>>

\* An entry of a "|"-separated list: the text as it is written (raw), the
\* text without the spaces around it (<<>> for a blank entry), whether the
\* text has "://" in it, and for a legacy string the fields it was made of
Entry(raw, text, separator, fields) ==
    [raw |-> raw, text |-> text, separator |-> separator, fields |-> fields]

Padded(text) == <<" ">> \o text \o <<" ", " ">>

DatabaseEntries ==
    { Entry(Padded(MysqlUri), MysqlUri, TRUE, <<>>),
      Entry(<<"postgres", ":", "/", "/", "u", "@", "db2", ":", "5", "/", "app", ",", "logs">>,
            <<"postgres", ":", "/", "/", "u", "@", "db2", ":", "5", "/", "app", ",", "logs">>,
            TRUE, <<>>),
      Entry(OracleUri, OracleUri, TRUE, <<>>),
      Entry(<<"mysql", ":", "/", "/", "u", ":", "p", "@", "db1", "/", " ">>,
            <<"mysql", ":", "/", "/", "u", ":", "p", "@", "db1", "/">>, TRUE, <<>>),
      Entry(<<" ">>, <<>>, FALSE, <<>>),
      Entry(<<>>, <<>>, FALSE, <<>>) }

StorageEntries ==
    { Entry(Padded(R2Uri), R2Uri, TRUE, <<>>),
      Entry(<<"r2", ":", "/", "/", "k", "@", "acct", "/", "bkt">>,
            <<"r2", ":", "/", "/", "k", "@", "acct", "/", "bkt">>, TRUE, <<>>),
      Entry(<<" ">>, <<>>, FALSE, <<>>),
      Entry(<<>>, <<>>, FALSE, <<>>) }
    \cup { Entry(Padded(LegacyTextOf(f)), LegacyTextOf(f),
                 Contains(LegacyTextOf(f), <<":", "/", "/">>), f) :
             f \in { g \in LegacyFieldLists : g[1] = <<"s3">> /\ Len(g) \in {3, 6} } }

InitDatabasesConfig ==
    /\ fn = "parse_databases_config"
    /\ fn_args \in EntryLists(DatabaseEntries)
    /\ fn_input = JoinRaw("|", fn_args)
    /\ fn_result = <<>>

ParseDatabasesConfig ==
    /\ fn = "parse_databases_config"
    /\ fn_result = <<>>
    /\ fn_result' = parse_databases_config(fn_input)
    /\ UNCHANGED <<fn, fn_args, fn_input, orchVars, discVars, pathVars, loadVars>>

InitStoragesConfig ==
    /\ fn = "parse_storages_config"
    /\ fn_args \in EntryLists(StorageEntries)
    /\ fn_input = JoinRaw("|", fn_args)
    /\ fn_result = <<>>

ParseStoragesConfig ==
    /\ fn = "parse_storages_config"
    /\ fn_result = <<>>
    /\ fn_result' = parse_storages_config(fn_input)
    /\ UNCHANGED <<fn, fn_args, fn_input, orchVars, discVars, pathVars, loadVars>>

InitFn ==
    \/ InitValidate
    \/ InitDatabaseUri
    \/ InitStorageUri
    \/ InitLegacy
    \/ InitDatabasesConfig
    \/ InitStoragesConfig

FnInit == InitFn /\ IdleOrch /\ IdleDisc /\ IdlePath /\ IdleLoad

FnNext ==
    \/ ValidateStrategies
    \/ ParseDatabaseUri
    \/ ParseStorageUri
    \/ ParseLegacyStorageFormat
    \/ ParseDatabasesConfig
    \/ ParseStoragesConfig

SpecFn == FnInit /\ [][FnNext]_vars

-----------------------------------------------------------------------------
(* Properties of create_backup *)

Results == session.strategy_results
Succeeded == {i \in 1..Len(Results) : Results[i].success}
Failed == {i \in 1..Len(Results) : ~Results[i].success}
Returned == pc = "returned" /\ config # <<>>

\* C1: for a non-empty strategy list, the returned session has success = true
\* and no error_message when no strategy failed; success = true and an
\* error_message naming every failed strategy id with its error when some
\* succeeded and some failed; success = false when none succeeded.
C1_SessionOutcome ==
    Returned =>
        /\ Failed = {} => session.success /\ session.error_message = None_
        /\ (Succeeded # {} /\ Failed # {}) =>
              /\ session.success
              /\ session.error_message # None_
              /\ \A i \in Failed :
                    Contains(session.error_message,
                             Results[i].strategy_id \o <<": ">> \o Results[i].error_message)
        /\ Succeeded = {} => ~session.success

C1_Witness ==
    /\ Returned
    /\ Succeeded # {} /\ Failed # {}
    /\ session.success /\ session.error_message # None_

\* the keys f"{host}_{db_name}" of a strategy's database names
ExpectedKeys(strategy) ==
    UNION { { BackupKey(strategy.databases[d].host,
                        strategy.databases[d].database_names[n]) :
                n \in 1..Len(strategy.databases[d].database_names) } :
            d \in 1..Len(strategy.databases) }

Keys(dict) == { dict[i].k : i \in 1..Len(dict) }

\* C2: a failed strategy does not stop the others: the returned session holds
\* one result per strategy, in list order, and every successful strategy's
\* result holds its artifacts, one list of local files and one of remote paths
\* per database-name key with an entry per storage, wherever the failed
\* strategies are in the list.
C2_FailureDoesNotStopTheOthers ==
    Returned =>
        /\ Len(Results) = Len(config)
        /\ \A i \in 1..Len(Results) :
              /\ Results[i].strategy_id = config[i].strategy_id
              /\ Results[i].success =>
                    /\ Results[i].backup_files # NoneDict
                    /\ Results[i].remote_paths # NoneDict
                    /\ Keys(Results[i].backup_files) = ExpectedKeys(config[i])
                    /\ Keys(Results[i].remote_paths) = ExpectedKeys(config[i])
                    /\ \A e \in 1..Len(Results[i].remote_paths) :
                          /\ Len(Results[i].remote_paths[e].v) = Len(config[i].storages)
                          /\ Len(Results[i].backup_files[e].v) = Len(config[i].storages)

C2_Witness ==
    /\ Returned
    /\ Len(Results) = 2
    /\ ~Results[1].success /\ Results[1].error_message = ExceptionText
    /\ Results[2].success /\ Truthy(Results[2].remote_paths)

\* a call that failed: it reported failure or raised (an exception of the
\* retention cleanup is swallowed and fails nothing)
FailedCall(c) == c.outcome # "ok" /\ c.op # "storage.cleanup_old_files"

\* C3: create_backup never raises because strategies failed: whatever call of
\* an adapter or a factory fails or raises, the strategy ends in a failed result
\* with an error message, and the session is returned, finalised, with the
\* failure in its error_message.
C3_NeverRaisesForFailedStrategies ==
    /\ raised = None_
    /\ pc # "raised"
    /\ (pc = "strategy_done" /\ \E c \in 1..Len(calls) : FailedCall(calls[c])) =>
          ~result.success /\ result.error_message # None_
    /\ (Returned /\ Failed # {}) =>
          session.duration_set /\ session.error_message # None_

C3_Witness ==
    /\ Returned
    /\ Len(Results) = 2 /\ Succeeded = {}
    /\ \E i \in Failed : Results[i].error_message = ExceptionText
    /\ \E i \in Failed : Results[i].error_message # ExceptionText
    /\ ~session.success /\ raised = None_

\* C4: with an empty strategy list create_backup ends in a failed session
\* (success = false, error_message set) whose strategy_results is empty, and no
\* adapter is constructed or called.
C4_EmptyListFailsWithoutAdapters ==
    (config = <<>> /\ pc = "returned") =>
        /\ ~session.success
        /\ session.error_message # None_
        /\ session.strategy_results = <<>>
        /\ ~touched /\ calls = <<>> /\ temp_dirs = {}

C4_Witness == config = <<>> /\ pc = "returned" /\ ~session.success

\* C5, as claimed: an empty strategy list surfaces as an error raised to the
\* caller of create_backup, not as a returned session.
C5_EmptyListRaises ==
    (config = <<>> /\ pc # "start") => (raised # None_ /\ pc # "returned")

\* C5, amended: an empty strategy list does not raise to the caller of
\* create_backup; the exception raised inside is caught and a session with
\* success = false and error_message "No backup strategies configured" is
\* returned.
C5_EmptyListReturnsFailedSession ==
    (config = <<>> /\ pc # "start") =>
        /\ pc = "returned"
        /\ raised = None_
        /\ ~session.success
        /\ session.error_message = <<"No backup strategies configured">>

C5_Witness ==
    /\ config = <<>> /\ pc = "returned" /\ raised = None_
    /\ session.error_message = <<"No backup strategies configured">>

\* the number of upload records of a result: one per database-name key and storage
UploadRecords(r) ==
    SumSeq([e \in 1..Len(r.remote_paths) |-> Len(r.remote_paths[e].v)])

\* C6: in a session where everything succeeds, total_backup_files is the
\* number of upload records (one per database name and storage) of all
\* strategies.
C6_TotalCountsUploadRecords ==
    (Returned /\ Failed = {}) =>
        session.total_backup_files =
            SumSeq([i \in 1..Len(Results) |-> UploadRecords(Results[i])])

\* C7: the backup filename is {timestamp}_{engineType}_{databaseName} with the
\* suffix .sql.gz when the strategy compresses and .sql when it does not, and
\* that filename names the local artifact and every remote path.
C7_FilenameFormat ==
    backup_filename # <<>> =>
        /\ \E timestamp \in Timestamps :
              backup_filename =
                  <<timestamp, "_", CurDatabase.database_type, "_", CurName>>
                      \o (IF CurStrategy.compression
                          THEN <<".sql", ".gz">> ELSE <<".sql">>)
        /\ \A i \in 1..Len(backup_files) : EndsWith(backup_files[i], backup_filename)
        /\ \A i \in 1..Len(remote_paths) : EndsWith(remote_paths[i], backup_filename)

\* Where strategy i of the list is: its result is in the session (SUCCEEDED or
\* FAILED), _execute_single_strategy is running for it or has returned and its
\* result is about to be appended (RUNNING), or neither yet (PENDING)
StrategyState(i) ==
    IF i <= Len(Results)
    THEN IF Results[i].success THEN "SUCCEEDED" ELSE "FAILED"
    ELSE IF i = si /\ pc \notin {"idle", "start", "next_strategy", "returned"}
    THEN "RUNNING"
    ELSE "PENDING"

\* Call a is for a database entry, a database name and a storage that do not
\* come after those of call b (a total preorder: a log is in order when each
\* call is not after the next)
NotAfter(a, b) ==
    \/ a.d < b.d
    \/ a.d = b.d /\ a.n < b.n
    \/ a.d = b.d /\ a.n = b.n /\ a.t <= b.t

\* C20: the strategies run strictly one after another in list order.  Each goes
\* from PENDING to RUNNING to SUCCEEDED or FAILED and never back, its result is
\* appended once, at its own position; at most one strategy is RUNNING, the
\* ones before it are finished and the ones after it PENDING; an adapter call
\* is only made for the RUNNING strategy; and within a strategy the calls go
\* through the database entries, the names of each entry and the storages of
\* each name in configuration order.
C20_StrictlySequential ==
    /\ [](/\ Len(Results) <= Len(config)
          /\ \A i \in 1..Len(Results) :
               Results[i].strategy_id = config[i].strategy_id
          /\ \A i, j \in 1..Len(config) :
               (StrategyState(i) = "RUNNING" /\ j < i) =>
                   StrategyState(j) \in {"SUCCEEDED", "FAILED"}
          /\ \A i, j \in 1..Len(config) :
               (StrategyState(i) = "RUNNING" /\ j > i) => StrategyState(j) = "PENDING"
          /\ \A i, j \in 1..Len(config) :
               (StrategyState(i) = "PENDING" /\ j > i) => StrategyState(j) = "PENDING"
          /\ calls # <<>> => (si \in 1..Len(config) /\ StrategyState(si) = "RUNNING")
          /\ \A a \in 1..(Len(calls) - 1) : NotAfter(calls[a], calls[a + 1])
          /\ \A a \in 1..Len(calls) :
               /\ calls[a].d \in 1..Len(config[si].databases)
               /\ calls[a].n \in 0..Len(config[si].databases[calls[a].d].database_names)
               /\ calls[a].t \in 0..Len(config[si].storages)
          /\ Returned => Len(Results) = Len(config))
    /\ [][/\ \A i \in 1..Len(config) :
               \/ StrategyState(i)' = StrategyState(i)
               \/ StrategyState(i) = "PENDING" /\ StrategyState(i)' = "RUNNING"
               \/ /\ StrategyState(i) = "RUNNING"
                  /\ StrategyState(i)' \in {"SUCCEEDED", "FAILED"}
          /\ Len(calls') > Len(calls) =>
               /\ StrategyState(si) = "RUNNING"
               /\ Len(Results) = si - 1
               /\ si' = si
               /\ SubSeq(calls', 1, Len(calls)) = calls
               /\ Len(calls') = Len(calls) + 1]_vars

\* Two strategies: the first has failed, the second is running and has
\* uploaded to its second storage
C20_Witness ==
    /\ Len(config) = 2
    /\ StrategyState(1) = "FAILED"
    /\ StrategyState(2) = "RUNNING"
    /\ \E a \in 1..Len(calls) :
         /\ calls[a].op = "storage.upload_file"
         /\ calls[a].t = 2

\* the calls made so far for the running strategy, by what they call
IsCall(c, op) == calls[c].op = op
DbTests == {c \in 1..Len(calls) : IsCall(c, "db.test_connection")}
Dumps == {c \in 1..Len(calls) : IsCall(c, "db.create_single_database_backup")}
Uploads == {c \in 1..Len(calls) : IsCall(c, "storage.upload_file")}
Cleanups == {c \in 1..Len(calls) : IsCall(c, "storage.cleanup_old_files")}
StorageTests == {c \in 1..Len(calls) : IsCall(c, "storage.test_connection")}

\* C21: the connection test of a database entry is made, once, before any dump
\* of that entry, and a dump only follows a test that passed.  When the test
\* reports failure nothing more is called for the strategy (no dump, upload or
\* cleanup for that entry or a later one), its result is a failure whose error
\* names the entry's host, and that result is what the session records.
C21_ConnectionTestGatesTheDatabase ==
    /\ [](/\ \A c \in Dumps :
               \E a \in DbTests :
                   a < c /\ calls[a].d = calls[c].d /\ calls[a].outcome = "ok"
          /\ \A a, b \in DbTests : calls[a].d = calls[b].d => a = b
          /\ \A a \in DbTests :
               calls[a].outcome # "ok" =>
                   /\ a = Len(calls)
                   /\ pc = "strategy_done"
                   /\ ~result.success
                   /\ \A c \in Dumps \cup Uploads \cup Cleanups : calls[c].d < calls[a].d
          /\ \A a \in DbTests :
               calls[a].outcome = "fail" =>
                   result.error_message =
                       <<"Database connection failed: ", config[si].databases[calls[a].d].host>>)
    /\ [][(\E a \in DbTests : calls[a].outcome = "fail") =>
              /\ Len(Results') = Len(Results) + 1
              /\ Results'[si].strategy_id = config[si].strategy_id
              /\ ~Results'[si].success
              /\ Results'[si].error_message = result.error_message
              /\ Results'[si].backup_files = NoneDict]_vars

\* The second database entry of a strategy fails its test after the first one
\* was dumped and uploaded
C21_Witness ==
    /\ pc = "strategy_done"
    /\ \E a \in DbTests : calls[a].d = 2 /\ calls[a].outcome = "fail"
    /\ \E c \in Uploads : calls[c].d = 1 /\ calls[c].outcome = "ok"
    /\ result.error_message = <<"Database connection failed: ", "db1">>

\* the database-name entries of a strategy: (database entry, name) positions
NamePairs(strategy) ==
    UNION { { <<d, n>> : n \in 1..Len(strategy.databases[d].database_names) } :
            d \in 1..Len(strategy.databases) }

\* the calls of a kind made for a database-name entry
CallsFor(kind, d, n) == {c \in kind : calls[c].d = d /\ calls[c].n = n}

\* C22: when a strategy ends SUCCEEDED, every database-name entry has exactly
\* one dump, which succeeded, and for every storage of the strategy exactly one
\* upload, which succeeded and was given that dump's file; every list of remote
\* paths (and of local files) in the result has one entry per storage, each the
\* remote path of an upload; and the uploads number (database-name entries) x
\* (storages).
C22_OneDumpFannedOutToEveryStorage ==
    (pc = "strategy_done" /\ result.success) =>
        /\ \A p \in NamePairs(CurStrategy) :
              /\ Cardinality(CallsFor(Dumps, p[1], p[2])) = 1
              /\ \A c \in CallsFor(Dumps, p[1], p[2]) :
                    /\ calls[c].outcome = "ok"
                    /\ \A t \in 1..Len(CurStrategy.storages) :
                          /\ Cardinality({u \in CallsFor(Uploads, p[1], p[2]) :
                                             calls[u].t = t}) = 1
                          /\ \A u \in CallsFor(Uploads, p[1], p[2]) :
                                /\ u > c
                                /\ calls[u].outcome = "ok"
                                /\ calls[u].arg[1] = calls[c].arg
        /\ \A c \in Dumps \cup Uploads : <<calls[c].d, calls[c].n>> \in NamePairs(CurStrategy)
        /\ \A e \in 1..Len(result.remote_paths) :
              /\ Len(result.remote_paths[e].v) = Len(CurStrategy.storages)
              /\ Len(result.backup_files[e].v) = Len(CurStrategy.storages)
              /\ \A i \in 1..Len(result.remote_paths[e].v) :
                    \E u \in Uploads :
                        /\ calls[u].t = i
                        /\ calls[u].arg[1] = result.backup_files[e].v[i]
                        /\ calls[u].arg[2] = result.remote_paths[e].v[i]
        /\ Cardinality(Uploads) =
              Cardinality(NamePairs(CurStrategy)) * Len(CurStrategy.storages)

\* Two database names fanned out to two storages: four uploads
C22_Witness ==
    /\ pc = "strategy_done" /\ result.success
    /\ Len(CurStrategy.storages) = 2
    /\ Cardinality(NamePairs(CurStrategy)) = 2
    /\ Cardinality(Uploads) = 4
    /\ Cardinality(Dumps) = 2

\* two calls of the same operation for the same database entry, name and storage
SameOperation(a, b) ==
    /\ calls[a].op = calls[b].op
    /\ calls[a].d = calls[b].d /\ calls[a].n = calls[b].n /\ calls[a].t = calls[b].t

\* what the failure of a storage call is raised as, lines 260 and 285
StorageFailureText(c) ==
    IF IsCall(c, "storage.test_connection")
    THEN <<"Storage connection failed: ", config[si].storages[calls[c].t].bucket>>
    ELSE <<"Upload failed: ", "upload error">>

\* C23: when a storage's connection test or upload fails during the fan-out of
\* a database name, that call is the last call made for the strategy (no other
\* storage is contacted, no other name or database entry is processed), it was
\* made once (no retry), the exception is in flight or the strategy has
\* returned a failed result with the failure's text, and that result is what
\* the session records.
C23_StorageFailureAbortsTheStrategy ==
    /\ [](\A c \in StorageTests \cup Uploads :
              calls[c].outcome # "ok" =>
                  /\ c = Len(calls)
                  /\ \A b \in 1..Len(calls) : SameOperation(b, c) => b = c
                  /\ \/ pc = "finally" /\ pending # None_
                     \/ pc = "strategy_done" /\ ~result.success
                  /\ (pc = "strategy_done" /\ calls[c].outcome = "fail") =>
                          result.error_message = StorageFailureText(c))
    /\ [][(\E c \in StorageTests \cup Uploads : calls[c].outcome # "ok") =>
              \/ pc = "finally" /\ pc' = "strategy_done" /\ calls' = calls
              \/ /\ pc = "strategy_done"
                 /\ Len(Results') = Len(Results) + 1
                 /\ ~Results'[si].success
                 /\ Results'[si].error_message = result.error_message]_vars

\* The upload of the first database name to the first of two storages reported
\* failure: the second storage and the second name were never reached
C23_Witness ==
    /\ pc = "strategy_done"
    /\ Len(CurStrategy.storages) = 2
    /\ Len(CurStrategy.databases[1].database_names) = 2
    /\ \E c \in Uploads :
         /\ calls[c].outcome = "fail" /\ calls[c].t = 1 /\ calls[c].n = 1
         /\ c = Len(calls)
    /\ result.error_message = <<"Upload failed: ", "upload error">>

\* two calls for the same database entry, name and storage
SameTarget(a, b) ==
    calls[a].d = calls[b].d /\ calls[a].n = calls[b].n /\ calls[a].t = calls[b].t

\* the call that follows a cleanup when the run goes on: the next storage of
\* the name is created, or the next name of the entry is dumped, or the next
\* database entry is created
FollowsCleanup(c, b) ==
    LET strategy == config[si]
        names == strategy.databases[calls[c].d].database_names
    IN IF calls[c].t < Len(strategy.storages)
       THEN /\ IsCall(b, "create_storage")
            /\ calls[b].d = calls[c].d /\ calls[b].n = calls[c].n
            /\ calls[b].t = calls[c].t + 1
       ELSE IF calls[c].n < Len(names)
       THEN /\ IsCall(b, "db.create_single_database_backup")
            /\ calls[b].d = calls[c].d /\ calls[b].n = calls[c].n + 1
       ELSE /\ IsCall(b, "create_database")
            /\ calls[b].d = calls[c].d + 1

\* the cleanup was called for the last storage of the last name of the last
\* database entry of the strategy
AtLastTarget(c) ==
    /\ calls[c].d = Len(config[si].databases)
    /\ calls[c].n = Len(config[si].databases[calls[c].d].database_names)
    /\ calls[c].t = Len(config[si].storages)

\* C24: with retention_days > 0 the retention cleanup of a storage is called
\* once, right after each successful upload to it (the call before a cleanup is
\* the successful upload to the same storage for the same name; the call after
\* a successful upload is its cleanup), never after an upload that failed; with
\* retention_days = 0 it is never called.  Whether the cleanup returns or
\* raises, the run goes on with the next storage, name or database entry, and
\* a strategy whose last call is the cleanup of its last storage succeeds.
C24_CleanupAfterEachSuccessfulUpload ==
    /\ [](calls # <<>> =>
          /\ config[si].retention_days = 0 => Cleanups = {}
          /\ \A c \in Cleanups :
                /\ c > 1
                /\ IsCall(c - 1, "storage.upload_file")
                /\ calls[c - 1].outcome = "ok"
                /\ SameTarget(c - 1, c)
                /\ \A b \in Cleanups : SameTarget(b, c) => b = c
                /\ c < Len(calls) => FollowsCleanup(c, c + 1)
                /\ c = Len(calls) =>
                      /\ pending = None_
                      /\ pc \in {"next_storage", "finally", "next_name", "dump",
                                 "next_db", "strategy_done"}
                      /\ pc = "strategy_done" =>
                            IF AtLastTarget(c)
                            THEN result.success
                            ELSE ~result.success /\ result.error_message = ExceptionText
          /\ \A u \in Uploads :
                IF calls[u].outcome = "ok" /\ config[si].retention_days > 0
                THEN IF u = Len(calls)
                     THEN pc = "cleanup"
                     ELSE IsCall(u + 1, "storage.cleanup_old_files") /\ SameTarget(u, u + 1)
                ELSE \A c \in Cleanups : ~SameTarget(u, c))
    /\ [][pc = "cleanup" =>
             /\ Len(calls') = Len(calls) + 1
             /\ IsCall(Len(calls), "storage.upload_file")
             /\ calls'[Len(calls')].op = "storage.cleanup_old_files"
             /\ pending' = None_ /\ result' = result
             /\ backup_files' = backup_files /\ remote_paths' = remote_paths
             /\ ti' = ti + 1
             /\ pc' = IF ti < Len(CurStrategy.storages)
                      THEN "next_storage" ELSE "finally"]_vars

\* Two names kept in two storages: the cleanup after the first upload raised,
\* the other three uploads and cleanups were made and the strategy succeeded
C24_Witness ==
    /\ pc = "strategy_done" /\ result.success
    /\ CurStrategy.retention_days > 0
    /\ Cardinality(Uploads) = 4 /\ Cardinality(Cleanups) = 4
    /\ \E c \in Cleanups :
         calls[c].outcome = "raise" /\ calls[c].n = 1 /\ calls[c].t = 1

\* _backup_database_to_storages is running: between mkdtemp and the end of its
\* finally block
InsideName == pc \in {"dump", "validate", "next_storage", "test_storage",
                      "upload", "cleanup", "finally"}

\* C25: when shutil.rmtree does not fail, the only temporary directory that
\* exists is the one of the database name being processed: outside
\* _backup_database_to_storages (before the next name, the next database entry
\* or the next strategy starts, after a strategy returned whatever made it
\* fail, and when create_backup has returned) no temporary directory exists.
\* Every step that leaves the processing of a name removes its directory.
C25_TempDirRemovedOnEveryExit ==
    /\ [](rmtree_works =>
            /\ InsideName => (temp_dir # <<>> /\ temp_dirs = {temp_dir})
            /\ ~InsideName => temp_dirs = {})
    /\ [][(rmtree_works /\ InsideName /\ ~InsideName') =>
              /\ pc = "finally"
              /\ temp_dir \in temp_dirs
              /\ temp_dirs' = {}
              /\ pc' \in {"next_name", "next_db", "strategy_done"}
              /\ (pending # None_) = (pc' = "strategy_done")]_vars

\* After a strategy that failed on an upload, the second strategy has returned
\* because the upload adapter raised for its second database name, and no
\* directory is left
C25_Witness ==
    /\ pc = "strategy_done" /\ rmtree_works
    /\ temp_dirs = {}
    /\ Len(Results) = 1
    /\ Results[1].error_message = <<"Upload failed: ", "upload error">>
    /\ calls # <<>>
    /\ IsCall(Len(calls), "storage.upload_file")
    /\ calls[Len(calls)].outcome = "raise" /\ calls[Len(calls)].n = 2
    /\ result.error_message = ExceptionText

\* the sums of the strategies' database entries and storage entries
DatabaseEntriesOf(c) == SumSeq([i \in 1..Len(c) |-> Len(c[i].databases)])
StorageEntriesOf(c) == SumSeq([i \in 1..Len(c) |-> Len(c[i].storages)])

\* C26: total_databases and total_storages are the sums, over all strategies,
\* of the numbers of database entries and of storage entries; they hold these
\* values from before the first strategy starts (before any adapter is
\* created) to the return of create_backup, and no step of the execution
\* changes them, whatever succeeds or fails.
C26_TotalsAreSetBeforeExecution ==
    /\ [](pc # "start" =>
            /\ session.total_databases = DatabaseEntriesOf(config)
            /\ session.total_storages = StorageEntriesOf(config))
    /\ [](pc = "start" => (~touched /\ calls = <<>> /\ Results = <<>> /\ si = 0))
    /\ [][pc # "start" =>
            /\ session'.total_databases = session.total_databases
            /\ session'.total_storages = session.total_storages]_vars

\* A session of two strategies, one failed and one succeeded, with three
\* database entries and three storage entries in all
C26_Witness ==
    /\ Returned
    /\ Len(config) = 2
    /\ Failed # {} /\ Succeeded # {}
    /\ Len(config[1].databases) # Len(config[2].databases)
    /\ session.total_databases = 3
    /\ session.total_storages = 3

\* the session has been finalized: duration_seconds is set (lines 106 and 115)
Finalized == session.duration_set

\* The state of the session: STARTED when it has been created, RUNNING_STRATEGIES
\* while the strategies run, and once finalized the state its success flag and
\* error_message tell
SessionState ==
    IF Finalized
    THEN IF ~session.success THEN "ALL_FAILED"
         ELSE IF session.error_message = None_ THEN "ALL_SUCCEEDED"
         ELSE "PARTIAL_SUCCESS"
    ELSE IF pc = "start" THEN "STARTED" ELSE "RUNNING_STRATEGIES"

\* C27: the session is finalized exactly once.  Until then success,
\* error_message, duration_seconds and total_backup_files hold their initial
\* values; one step gives them their final values, taken either when every
\* strategy of the list is SUCCEEDED or FAILED or at the rejection of an empty
\* list; create_backup has returned exactly when the session is finalized, and
\* nothing changes afterwards.  The session state goes STARTED ->
\* RUNNING_STRATEGIES -> ALL_SUCCEEDED, PARTIAL_SUCCESS or ALL_FAILED (at
\* rejection: STARTED -> ALL_FAILED), the terminal state agrees with the
\* results, and it is never left.
C27_FinalizedExactlyOnce ==
    /\ [](/\ Finalized <=> pc = "returned"
          /\ ~Finalized =>
                /\ ~session.success
                /\ session.error_message = None_
                /\ session.total_backup_files = 0
          /\ (Finalized /\ config # <<>>) =>
                /\ Len(Results) = Len(config)
                /\ \A i \in 1..Len(config) : StrategyState(i) \in {"SUCCEEDED", "FAILED"}
                /\ SessionState = "ALL_SUCCEEDED" <=> Failed = {}
                /\ SessionState = "PARTIAL_SUCCESS" <=> (Failed # {} /\ Succeeded # {})
                /\ SessionState = "ALL_FAILED" <=> Succeeded = {}
          /\ (Finalized /\ config = <<>>) => SessionState = "ALL_FAILED")
    /\ [][/\ Finalized => (session' = session /\ pc' = pc /\ raised' = raised)
          /\ (~Finalized /\ Finalized') =>
                \/ pc = "start" /\ config = <<>>
                \/ /\ pc = "next_strategy" /\ config # <<>>
                   /\ Len(Results) = Len(config)
                   /\ Results' = Results
          /\ \/ SessionState' = SessionState
             \/ SessionState = "STARTED" /\ SessionState' = "RUNNING_STRATEGIES"
             \/ /\ SessionState = "RUNNING_STRATEGIES"
                /\ SessionState' \in {"ALL_SUCCEEDED", "PARTIAL_SUCCESS", "ALL_FAILED"}
             \/ /\ SessionState = "STARTED" /\ config = <<>>
                /\ SessionState' = "ALL_FAILED"]_vars

\* A session of two strategies has ended in PARTIAL_SUCCESS
C27_Witness ==
    /\ Returned
    /\ Len(config) = 2
    /\ SessionState = "PARTIAL_SUCCESS"
    /\ Results[1].success /\ ~Results[2].success
    /\ session.total_backup_files > 0

\* C28: the prefix passed to a storage's retention cleanup is the normalized
\* prefix under which the artifact was just uploaded, whatever the configured
\* prefix (absent, empty, with leading or trailing "/"), so that the cleanup
\* looks at the objects under the upload prefix: the listing it makes holds the
\* object just uploaded.
C28_CleanupUsesTheUploadPrefix ==
    \A c \in Cleanups :
        LET prefix == calls[c].arg
            uploaded == calls[c - 1].arg[2]
            normalized == NormalizePrefix(config[si].storages[calls[c].t].prefix)
        IN /\ (IF prefix = None_ THEN <<>> ELSE prefix) = normalized
           /\ normalized # <<>> => StartsWith(uploaded, normalized \o <<"/">>)
           /\ ListsKey(prefix, uploaded)

\* C29: in a successful strategy result, backup_files and remote_paths hold one
\* entry per (database entry, database name) pair that was processed: each has
\* as many keys as the strategy has database-name entries, so no pair's record
\* is replaced by another's, also when two database entries are on the same
\* host.
C29_OneRecordPerDatabaseName ==
    (pc = "strategy_done" /\ result.success) =>
        /\ Len(result.backup_files) = Cardinality(NamePairs(CurStrategy))
        /\ Len(result.remote_paths) = Cardinality(NamePairs(CurStrategy))
        /\ \A p \in NamePairs(CurStrategy) :
              \A c \in CallsFor(Dumps, p[1], p[2]) :
                  \E e \in 1..Len(result.backup_files) :
                      \A i \in 1..Len(result.backup_files[e].v) :
                          result.backup_files[e].v[i] = calls[c].arg

\* the uploads of the running strategy that succeeded
Uploaded == {u \in Uploads : calls[u].outcome = "ok"}

\* C30: a strategy that fails after some of its uploads succeeded returns a
\* result with success = false and neither backup_files nor remote_paths; the
\* call that failed is the last call made for the strategy, so nothing is
\* called on a storage to take the uploaded objects back; the result is
\* recorded as it is, and total_backup_files of the returned session is the
\* sum over the successful results only, the failed ones holding no files.
C30_FailedStrategyReportsNoFiles ==
    /\ [](/\ (pc = "strategy_done" /\ ~result.success) =>
                /\ result.backup_files = NoneDict
                /\ result.remote_paths = NoneDict
                /\ result.error_message # None_
          /\ \A c \in 1..Len(calls) : FailedCall(calls[c]) => c = Len(calls)
          /\ \A i \in Failed :
                /\ Results[i].backup_files = NoneDict
                /\ Results[i].remote_paths = NoneDict
                /\ CountBackupFiles(Results[i]) = 0
          /\ Returned =>
                session.total_backup_files =
                    SumSeq([i \in 1..Len(Results) |->
                              IF Results[i].success
                              THEN Len(Results[i].backup_files) ELSE 0]))
    /\ [][(pc = "strategy_done" /\ ~result.success /\ Uploaded # {}) =>
              /\ Results' = Append(Results, result)
              /\ calls' = <<>>
              /\ session'.total_backup_files = session.total_backup_files]_vars

\* After a strategy that succeeded, the second strategy has failed on the dump
\* of its second database name when the first name was already in two storages
C30_Witness ==
    /\ pc = "strategy_done" /\ ~result.success
    /\ Len(Results) = 1 /\ Results[1].success
    /\ Cardinality(Uploaded) = 2
    /\ IsCall(Len(calls), "db.create_single_database_backup")
    /\ calls[Len(calls)].outcome = "fail" /\ calls[Len(calls)].n = 2
    /\ result.backup_files = NoneDict

-----------------------------------------------------------------------------
(* Properties of the remote path *)

AllSlashes(s) == \A i \in 1..Len(s) : s[i] = "/"

\* C8: the remote path is the filename alone when the prefix without its
\* leading and trailing "/" is empty (or the prefix is absent), and that
\* stripped prefix, "/" and the filename otherwise; stripping an already
\* stripped prefix changes nothing, and the remote path never starts with "/".
C8_RemotePath ==
    p_remote # None_ =>
        LET s == IF p_prefix = None_ THEN <<>> ELSE p_prefix
        IN /\ \E i \in 0..Len(s) : \E j \in i..Len(s) :
                 LET n == SubSeq(s, i + 1, j)
                 IN /\ AllSlashes(SubSeq(s, 1, i))
                    /\ AllSlashes(SubSeq(s, j + 1, Len(s)))
                    /\ n # <<>> => (n[1] # "/" /\ n[Len(n)] # "/")
                    /\ p_remote = IF n = <<>> THEN p_filename
                                  ELSE n \o <<"/">> \o p_filename
                    /\ RemotePath(n, p_filename) = p_remote
           /\ Head(p_remote) # "/"

C8_Witness ==
    /\ p_prefix = <<"/", "a", "/", "b", "/">>
    /\ p_remote = <<"a", "/", "b", "/">> \o p_filename

-----------------------------------------------------------------------------
(* Properties of strategy discovery *)

\* Both variables of index n hold a value
PairSet(n) ==
    /\ IsTrue(getenv(env, EnvKey("DATABASES", Suffix(n))))
    /\ IsTrue(getenv(env, EnvKey("STORAGES", Suffix(n))))

\* Neither variable of index n holds a value
NeitherSet(n) ==
    /\ ~IsTrue(getenv(env, EnvKey("DATABASES", Suffix(n))))
    /\ ~IsTrue(getenv(env, EnvKey("STORAGES", Suffix(n))))

\* The shorthand pair is not complete, so the indexed variables are probed
IndexedMode == dpc # "idle" /\ ~PairSet(0)

\* The longest prefix 1..k of indices with both variables set
FullySetPrefix ==
    CHOOSE k \in 0..MaxIndex :
        /\ \A n \in 1..k : PairSet(n)
        /\ ~PairSet(k + 1)

\* The reads of DATABASES_n and STORAGES_n, in the order they were made
ProbeReads ==
    SelectSeq(reads, LAMBDA k : k[1] \in {"DATABASES", "STORAGES"} /\ Len(k) = 3)

\* The index of an indexed key
KeyIndex(k) == CHOOSE n \in 1..(MaxIndex + 1) : Suffix(n) = SubSeq(k, 2, 3)

\* C9: in indexed mode the pairs DATABASES_n/STORAGES_n are read for
\* n = 1, 2, ... in increasing order, no index after the first one with
\* neither variable set is read, and the list that is returned holds exactly
\* strategy_1 .. strategy_k, built from the pairs 1..k, where 1..k is the
\* longest prefix of indices with both variables set and index k + 1 has
\* neither set.  (A variable counts as set when it holds a non-empty value.)
C9_IndexedProbingStopsAtFirstGap ==
    IndexedMode =>
        /\ \A i \in 1..Len(ProbeReads) :
             ProbeReads[i] = EnvKey(IF i % 2 = 1 THEN "DATABASES" ELSE "STORAGES",
                                    Suffix((i + 1) \div 2))
        /\ \A i \in 1..Len(ProbeReads) :
             \A n \in 1..MaxIndex :
                 NeitherSet(n) => KeyIndex(ProbeReads[i]) <= n
        /\ dpc = "returned" =>
             /\ Len(strategies) = FullySetPrefix
             /\ NeitherSet(FullySetPrefix + 1)
             /\ Len(ProbeReads) = 2 * (FullySetPrefix + 1)
             /\ \A i \in 1..Len(strategies) :
                  /\ strategies[i].strategy_id = StrategyId(i)
                  /\ strategies[i].databases =
                       parse_databases_config(env[EnvKey("DATABASES", Suffix(i))]).value
                  /\ strategies[i].storages =
                       parse_storages_config(env[EnvKey("STORAGES", Suffix(i))]).value

\* Indices 1 and 3 are set, index 2 is not: one strategy is returned and
\* index 3 was never read.
C9_Witness ==
    /\ IndexedMode
    /\ PairSet(1) /\ NeitherSet(2) /\ PairSet(3)
    /\ dpc = "returned"
    /\ Len(strategies) = 1
    /\ strategies[1].strategy_id = <<"strategy_1">>
    /\ \A i \in 1..Len(reads) : reads[i] # <<"DATABASES", "_", "3">>
                                /\ reads[i] # <<"STORAGES", "_", "3">>

\* Index n was probed and exactly one variable of its pair is set
ProbedIncomplete(n) ==
    /\ \E i \in 1..Len(reads) : reads[i] = EnvKey("DATABASES", Suffix(n))
    /\ ~PairSet(n)
    /\ ~NeitherSet(n)

\* C10: in indexed mode, once an index is probed at which exactly one of
\* DATABASES_n and STORAGES_n is set, discovery has raised a StrategyError
\* whose message names DATABASES_n and STORAGES_n; it read nothing after the
\* pair, built no strategy for the index and returns no list, whatever
\* strategies the lower indices gave.  (A variable counts as set when it holds
\* a non-empty value.)
C10_IncompletePairRaises ==
    IndexedMode =>
        \A n \in 1..MaxIndex :
            ProbedIncomplete(n) =>
                /\ dpc = "raised"
                /\ derror.type = "StrategyError"
                /\ Contains(derror.message, EnvKey("DATABASES", Suffix(n)))
                /\ Contains(derror.message, EnvKey("STORAGES", Suffix(n)))
                /\ reads[Len(reads)] = EnvKey("STORAGES", Suffix(n))
                /\ Len(strategies) = n - 1

\* Index 1 gave a strategy, index 2 has DATABASES_2 without STORAGES_2
C10_Witness ==
    /\ IndexedMode
    /\ PairSet(1)
    /\ IsTrue(getenv(env, <<"DATABASES", "_", "2">>))
    /\ getenv(env, <<"STORAGES", "_", "2">>) = None_
    /\ Len(strategies) = 1
    /\ dpc = "raised"
    /\ Contains(derror.message, <<"DATABASES", "_", "2">>)
    /\ Contains(derror.message, <<"STORAGES", "_", "2">>)

\* Discovery has read the shorthand pair
Started == dpc \notin {"idle", "start"}

\* What discovery hands to the client check and returns
Built == dpc \in {"check_clients", "returned"}

\* C11: the two modes exclude each other.  When DATABASES and STORAGES are
\* both set no DATABASES_n or STORAGES_n is ever read, whatever they hold, and
\* what discovery builds and returns is the single strategy strategy_1 made of
\* the two variables and of the settings without suffix; when the shorthand
\* pair is not both set the loop over the indices runs and reads index 1.
C11_ModesAreExclusive ==
    Started =>
        /\ ~PairSet(0) =>
             /\ strategy_index >= 1
             /\ dpc # "probe" => ProbeReads # <<>>
        /\ PairSet(0) =>
             /\ ProbeReads = <<>>
             /\ \A i \in 1..Len(reads) : Len(reads[i]) = 1
             /\ strategy_index = 0
             /\ Built =>
                  /\ Len(strategies) = 1
                  /\ strategies[1].strategy_id = <<"strategy_1">>
                  /\ strategies[1].databases =
                       parse_databases_config(env[<<"DATABASES">>]).value
                  /\ strategies[1].storages =
                       parse_storages_config(env[<<"STORAGES">>]).value
                  /\ strategies[1].retention_days =
                       int(getenv_default(env, <<"RETENTION_DAYS">>, <<"30">>)).value
                  /\ strategies[1].backup_timeout_minutes =
                       int(getenv_default(env, <<"BACKUP_TIMEOUT">>, <<"60">>)).value
                  /\ strategies[1].compression = _parse_bool_env(env, <<"COMPRESSION">>, TRUE)
                  /\ strategies[1].verify_backup = _parse_bool_env(env, <<"VERIFY_BACKUP">>, TRUE)

\* The shorthand pair and the pairs of indices 1 and 2 are all set, and
\* RETENTION_DAYS without suffix is "0": one strategy is returned, with it.
C11_Witness ==
    /\ PairSet(0) /\ PairSet(1) /\ PairSet(2)
    /\ dpc = "returned"
    /\ Len(strategies) = 1
    /\ strategies[1].strategy_id = <<"strategy_1">>
    /\ getenv(env, <<"RETENTION_DAYS">>) = <<"0">>
    /\ strategies[1].retention_days = 0
    /\ ProbeReads = <<>>

\* C13: every strategy parse_strategies_from_env returns has retention_days > 0
\* and backup_timeout_minutes > 0, whatever RETENTION_DAYS[_n] and
\* BACKUP_TIMEOUT[_n] are in the environment.
C13_DiscoveredBoundsArePositive ==
    dpc = "returned" =>
        \A i \in 1..Len(strategies) :
            /\ strategies[i].retention_days > 0
            /\ strategies[i].backup_timeout_minutes > 0

\* C14: load_config returns a BackupConfig only when parse_strategies_from_env
\* returned (so after the client check passed) and validate_strategies accepted
\* the list, and the configuration then holds the whole list, one strategy for
\* every pair of the environment; in every other case it raises ConfigError and
\* returns nothing, also when strategies were parsed before the index that
\* failed.  create_backup is only started by run_backup from a configuration
\* that load_config returned.
C14_NoPartialConfiguration ==
    /\ lpc \in {"loaded", "create_backup"} =>
         /\ dpc = "returned"
         /\ loaded.strategies = strategies
         /\ Len(strategies) = (IF PairSet(0) THEN 1 ELSE FullySetPrefix)
         /\ Len(strategies) >= 1
         /\ \A i \in 1..Len(strategies) :
              /\ \A j \in 1..(i - 1) :
                   strategies[j].strategy_id # strategies[i].strategy_id
              /\ Len(strategies[i].databases) >= 1
              /\ Len(strategies[i].storages) >= 1
              /\ strategies[i].retention_days > 0
              /\ strategies[i].backup_timeout_minutes > 0
         /\ lerror = None_
    /\ lpc \in {"config_error", "return_false"} =>
         /\ lerror.type = "ConfigError"
         /\ loaded = None_
    /\ pc # "idle" =>
         /\ lpc = "create_backup"
         /\ config = loaded.strategies
    /\ lpc # "create_backup" => pc = "idle" /\ config = <<>>

\* strategy_1 was parsed, index 2 failed to parse: load_config raised, and
\* run_backup returned without a create_backup
C14_Witness ==
    /\ dpc = "raised"
    /\ Len(strategies) = 1
    /\ strategy_index = 2
    /\ lpc = "return_false"
    /\ lerror.type = "ConfigError"
    /\ loaded = None_
    /\ pc = "idle"

\* The client check has run
Checked == DOMAIN clients # {}

\* The engines the check found no client for
MissingEngines == { t \in DOMAIN clients : clients[t] = "none" }

\* C15: the client check runs once per discovery, when every strategy has been
\* parsed, over the distinct engines of the databases of all strategies.
\* Discovery returns only after the check found a system client or a library
\* client for each of these engines; otherwise it raises one StrategyError whose
\* text lists every engine without a client.  The check changes no strategy.
C15_ClientCheckGatesDiscovery ==
    /\ [](/\ dpc = "returned" => Checked
          /\ dpc = "check_clients" =>
               /\ ~Checked
               /\ Len(strategies) = (IF PairSet(0) THEN 1 ELSE FullySetPrefix)
          /\ Checked =>
               /\ DOMAIN clients = RequiredDbTypes(strategies)
               /\ dpc \in {"returned", "raised"}
               /\ dpc = "returned" <=> MissingEngines = {}
               /\ dpc = "returned" =>
                    \A t \in DOMAIN clients : clients[t] \in {"system", "python"}
               /\ dpc = "raised" =>
                    /\ derror.type = "StrategyError"
                    /\ \E order \in Orders(MissingEngines) :
                         derror.message =
                           <<"Database client check failed: ",
                             "Missing client tools for the following database types: ">>
                           \o Join(<<", ">>, [i \in 1..Len(order) |-> <<order[i]>>]))
    /\ [][/\ clients' # clients => (dpc = "check_clients" /\ ~Checked)
          /\ dpc = "check_clients" => strategies' = strategies]_vars

\* mysql and postgresql databases, no client for either: one error names both
C15_Witness ==
    /\ Checked
    /\ dpc = "raised"
    /\ DOMAIN clients = {"mysql", "postgresql"}
    /\ MissingEngines = {"mysql", "postgresql"}
    /\ Contains(derror.message, <<"mysql", ", ", "postgresql">>)
    /\ Len(strategies) >= 1

-----------------------------------------------------------------------------
(* Properties of the configuration functions *)

Called(name) == fn = name /\ fn_result # <<>>

\* The i-th strategy given has the id of one before it
DuplicateId(i) ==
    \E j \in 1..(i - 1) : fn_input[j].strategy_id = fn_input[i].strategy_id

\* Every database entry of the i-th strategy has a host, a username and a
\* database name, every storage entry a bucket and both keys
CompleteEntries(i) ==
    /\ \A d \in 1..Len(fn_input[i].databases) :
         /\ fn_input[i].databases[d].database_names # <<>>
         /\ fn_input[i].databases[d].host # <<>>
         /\ fn_input[i].databases[d].username # <<>>
    /\ \A t \in 1..Len(fn_input[i].storages) :
         /\ fn_input[i].storages[t].bucket # <<>>
         /\ fn_input[i].storages[t].access_key # <<>>
         /\ fn_input[i].storages[t].secret_key # <<>>

Acceptable(i) ==
    /\ ~DuplicateId(i)
    /\ Len(fn_input[i].databases) >= 1
    /\ Len(fn_input[i].storages) >= 1
    /\ CompleteEntries(i)
    /\ fn_input[i].retention_days > 0
    /\ fn_input[i].backup_timeout_minutes > 0

Offenders == { i \in 1..Len(fn_input) : ~Acceptable(i) }

FirstOffender == CHOOSE i \in Offenders : \A j \in Offenders : i <= j

\* What a StrategyError of validate_strategies can say after "Strategy <id>"
Complaints ==
    {" has no database configuration",
     " database configuration missing database names",
     " database configuration incomplete",
     " has no storage configuration",
     " storage configuration incomplete",
     " retention days must be greater than 0",
     " backup timeout must be greater than 0"}

\* C12: validate_strategies returns True for every non-empty list in which every
\* strategy has a new id, at least one database and one storage entry, complete
\* entries, retention_days > 0 and backup_timeout_minutes > 0.  Otherwise it
\* raises one StrategyError, about the first strategy of the list that fails a
\* test, with that strategy's id in the message: a repeated id is reported as
\* "Duplicate strategy ID", else an empty database list as "has no database
\* configuration", and a retention_days <= 0 that is the strategy's only fault
\* as "retention days must be greater than 0".  (The empty list is rejected
\* with "No backup strategies configured".)
C12_ValidateReportsFirstViolation ==
    Called("validate_strategies") =>
        /\ fn_input = <<>> =>
             fn_result = Raises("StrategyError", <<"No backup strategies configured">>)
        /\ (fn_input # <<>> /\ Offenders = {}) => fn_result = Returns(TRUE)
        /\ Offenders # {} =>
             LET i == FirstOffender
                 id == fn_input[i].strategy_id
             IN  /\ ~fn_result.ok
                 /\ fn_result.type = "StrategyError"
                 /\ \/ fn_result.message = <<"Duplicate strategy ID: ">> \o id
                    \/ \E c \in Complaints :
                         fn_result.message = <<"Strategy ">> \o id \o <<c>>
                 /\ DuplicateId(i) =>
                      fn_result.message = <<"Duplicate strategy ID: ">> \o id
                 /\ (~DuplicateId(i) /\ fn_input[i].databases = <<>>) =>
                      fn_result.message =
                        <<"Strategy ">> \o id \o <<" has no database configuration">>
                 /\ ( /\ ~DuplicateId(i)
                      /\ fn_input[i].databases # <<>>
                      /\ fn_input[i].storages # <<>>
                      /\ CompleteEntries(i)
                      /\ fn_input[i].retention_days <= 0 ) =>
                      fn_result.message =
                        <<"Strategy ">> \o id
                          \o <<" retention days must be greater than 0">>

\* A complete strategy followed by one that repeats its id, has no database and
\* a zero retention: only the repeated id is reported
C12_Witness ==
    /\ Called("validate_strategies")
    /\ fn_args = << <<(<<"strategy_1">>), "complete">>,
                    <<(<<"strategy_1">>), "no_databases_zero_retention">> >>
    /\ fn_input[2].databases = <<>>
    /\ fn_input[2].retention_days = 0
    /\ fn_result = Raises("StrategyError",
                          <<"Duplicate strategy ID: ", "strategy_1">>)

\* The names a list of entries stands for: the blank entries dropped, the
\* others trimmed, in the order written
NamesOf(entries) ==
    LET kept == SelectSeq(entries, LAMBDA e : e.name # <<>>)
    IN  [i \in 1..Len(kept) |-> kept[i].name]

\* C17: the database_names parse_database_uri returns are the names of the path
\* (split at the commas, trimmed, blank entries dropped) followed by the names
\* of the databases parameter of the query (the same rule), duplicates kept.
\* With a supported scheme, a numeric port and a numeric timeout the parse
\* fails exactly when that list is empty; every failure, also that of a port or
\* a timeout that is not a number, is a URIParseError.
C17_DatabaseNamesFromPathThenQuery ==
    Called("parse_database_uri") =>
        LET expected == NamesOf(fn_args.path) \o NamesOf(fn_args.databases)
            supported == fn_args.variant.scheme \in
                             {<<"mysql">>, <<"postgresql">>, <<"postgres">>}
            bad_port == fn_args.variant.port = <<"abc">>
            bad_timeout == fn_args.variant.timeout = <<"abc">>
        IN  /\ fn_result.ok => /\ fn_result.value.database_names = expected
                               /\ expected # <<>>
            /\ ~fn_result.ok => fn_result.type = "URIParseError"
            /\ expected = <<>> => ~fn_result.ok
            /\ (supported /\ ~bad_port /\ ~bad_timeout) =>
                 (~fn_result.ok <=> expected = <<>>)
            /\ (supported /\ ~bad_port /\ expected = <<>>) =>
                 fn_result.message = <<"No database names specified in URI">>
            /\ (supported /\ bad_port) =>
                 /\ ~fn_result.ok
                 /\ fn_result.message[1] = "Database URI parsing failed: "
            /\ (supported /\ ~bad_port /\ expected # <<>> /\ bad_timeout) =>
                 /\ ~fn_result.ok
                 /\ fn_result.message[1] = "Database URI parsing failed: "

\* mysql://u:p@db1:3307/app, logs ?databases=,app&timeout=5 gives app, logs, app
C17_Witness ==
    /\ Called("parse_database_uri")
    /\ fn_args.variant.port = <<"3307">>
    /\ fn_args.has_path /\ fn_args.has_databases
    /\ JoinRaw(",", fn_args.path) = <<"app", ",", " ", "logs", " ">>
    /\ JoinRaw(",", fn_args.databases) = <<",", "app">>
    /\ fn_result.ok
    /\ fn_result.value.database_names = << <<"app">>, <<"logs">>, <<"app">> >>

\* C18: parse_storage_uri keeps three prefix cases apart: a prefix parameter
\* with a value gives that value, a prefix parameter without a value
\* (...?prefix=) gives the empty string, and a query without the parameter
\* gives None.
C18_ThreePrefixCases ==
    (Called("parse_storage_uri") /\ fn_result.ok) =>
        fn_result.value.prefix = fn_args.prefix

\* The entries of the list given that are not blank
Kept == SelectSeq(fn_args, LAMBDA e : e.text # <<>>)

\* What the parser for one entry gives for the i-th entry that is not blank
ParseOfKept(i) ==
    IF fn = "parse_databases_config" THEN parse_database_uri(Kept[i].text)
    ELSE IF Kept[i].separator THEN parse_storage_uri(Kept[i].text)
    ELSE parse_legacy_storage_format(Kept[i].text)

FailingEntries == { i \in 1..Len(Kept) : ~ParseOfKept(i).ok }

\* C16: parse_databases_config and parse_storages_config return the
\* configurations of the trimmed, non-blank "|"-separated substrings, in the
\* order written; a storage substring is parsed as a URI exactly when it has
\* "://" in it, as a legacy string otherwise.  When a substring fails to parse
\* the call raises the error of the first such substring unchanged and returns
\* no list.
C16_ListsAreAllOrNothing ==
    (Called("parse_databases_config") \/ Called("parse_storages_config")) =>
        IF FailingEntries = {}
        THEN fn_result = Returns([i \in 1..Len(Kept) |-> ParseOfKept(i).value])
        ELSE /\ ~fn_result.ok
             /\ fn_result.value = None_
             /\ fn_result = ParseOfKept(CHOOSE i \in FailingEntries :
                                            \A j \in FailingEntries : i <= j)

\* " r2://k:s@acct/bkt1  | s3:k:s  ": the URI parses, the legacy string is
\* too short, and the call raises the legacy parser's error
C16_Witness ==
    /\ Called("parse_storages_config")
    /\ Len(fn_args) = 2
    /\ fn_args[1].text = R2Uri /\ fn_args[1].raw # R2Uri
    /\ fn_args[2].text = <<"s3", ":", "k", ":", "s">>
    /\ parse_storage_uri(R2Uri).ok
    /\ fn_result = Raises("URIParseError",
                          <<"Insufficient legacy format configuration items">>)

\* Field 5 of a legacy string is an HTTP(S) URL
IsHttpUrl(field) ==
    /\ Len(field) >= 4
    /\ field[1] \in {"http", "https"}
    /\ SubSeq(field, 2, 4) = <<":", "/", "/">>

\* What C19 says of the legacy string made of the fields, r being what the
\* parser gave for it (ok, type) and, when ok, the StorageConfig
LegacyAsClaimed(fields, ok, type, storage_config) ==
    /\ Len(fields) < 4 => (~ok /\ type = "URIParseError")
    /\ (Len(fields) >= 4 /\ fields[1] \in {<<"s3">>, <<"r2">>}) =>
         /\ ok
         /\ (Len(fields) >= 5 /\ IsHttpUrl(fields[5])) =>
              storage_config.endpoint = fields[5]
         /\ (Len(fields) >= 5 /\ ~IsHttpUrl(fields[5]) /\ fields[5] # <<>>
               /\ fields[1] = <<"s3">>) =>
              storage_config.region = fields[5]
         /\ Len(fields) >= 6 => storage_config.prefix = fields[6]

\* C19: a legacy string of fewer than 4 colon-separated fields fails with
\* URIParseError; with 4 fields or more, field 5 is the endpoint when it is an
\* HTTP(S) URL such as https://host and the region otherwise, and field 6 is
\* the prefix; the same when the string is the only entry of the list given to
\* parse_storages_config.
C19_LegacyFields ==
    /\ Called("parse_legacy_storage_format") =>
         LegacyAsClaimed(fn_args.fields, fn_result.ok, fn_result.type,
                         fn_result.value)
    /\ (Called("parse_storages_config") /\ Len(fn_args) = 1
          /\ fn_args[1].fields # <<>>) =>
         LegacyAsClaimed(fn_args[1].fields, fn_result.ok, fn_result.type,
                         IF fn_result.ok /\ fn_result.value # <<>>
                         THEN fn_result.value[1] ELSE None_)

====
